---- MODULE Spec2Model ----
(***************************************************************************)
(* Entity store, entity processor and runner of the Credential Registry    *)
(* publish action (src/src/graphs.ts, src/src/runner.ts, src/src/utils.ts).*)
(*                                                                         *)
(* Strings are modelled by what the code asks of them.  An identifier is a *)
(* record [kind, base, tail, n]:                                           *)
(*   kind = "blank"  the string "_:" \o tail                               *)
(*   kind = "res"    the string base \o "/resources/" \o tail              *)
(*   kind = "url"    any other string that starts with "http"              *)
(*   kind = "none"   no identifier (undefined)                             *)
(* and n > 0 numbers the uuid of a blank identifier minted by the code.    *)
(***************************************************************************)
EXTENDS Integers, Sequences, FiniteSets, TLC

\* ---------------------------------------------------------------- bounds
MaxOps == 2

\* registerEntity calls before getOrderedEntitiesToPublish is asked
MaxRegistered == 3

\* ----------------------------------------------------------- identifiers
NoId == [kind |-> "none", base |-> "", tail |-> "", n |-> 0]

Blank(t) == [kind |-> "blank", base |-> "", tail |-> t, n |-> 0]

Url(t) == [kind |-> "url", base |-> "", tail |-> t, n |-> 0]

Res(b, t) == [kind |-> "res", base |-> b, tail |-> t, n |-> 0]

\* id.startsWith("_:")
IsBlank(id) == id.kind = "blank"

\* value.startsWith("http")
StartsWithHttp(id) == id.kind \in {"res", "url"}

RegistryBaseUrls ==
  [sandbox |-> "https://sandbox.credentialengineregistry.org",
   staging |-> "https://staging.credentialengineregistry.org",
   production |-> "https://credentialengineregistry.org"]

\* Object.values(RegistryBaseUrls), in declaration order
RegistryBaseUrlValues ==
  <<RegistryBaseUrls.sandbox, RegistryBaseUrls.staging, RegistryBaseUrls.production>>

defaultRC == [registryEnv |-> "sandbox", registryBaseUrl |-> RegistryBaseUrls.sandbox]

\* names every JavaScript object inherits from Object.prototype
InheritedKeys == {"constructor", "toString", "valueOf", "hasOwnProperty"}

\* RegistryBaseUrls[registryEnv]: the base URL of a registry environment, ""
\* for undefined, and "inherited" for the (truthy) member that the object
\* inherits under that name
registryBaseUrlOf(registryEnv) ==
  IF registryEnv \in DOMAIN RegistryBaseUrls THEN RegistryBaseUrls[registryEnv]
  ELSE IF registryEnv \in InheritedKeys THEN "inherited"
  ELSE ""

\* the configuration inputs of the action ("" when an input is not given)
ConfigInput(registry_env, registry_api_key, organization_ctid) ==
  [registry_env |-> registry_env, registry_api_key |-> registry_api_key,
   organization_ctid |-> organization_ctid]

ValidInputs == ConfigInput("sandbox", "secret", "ce-1234")

ConfigInputs ==
  {ConfigInput(e, k, o) : e \in {"sandbox", "", "bogus", "constructor"},
                          k \in {"secret", ""}, o \in {"ce-1234", ""}}

\* ceterms:ctid values; the first two have the shape ce-<uuid>, "ce-9999" (the
\* value the tests use) has not.  NoCtid stands for an absent ctid.
NoCtid == ""

UuidCtids == {"ce-aaaa-uuid", "ce-bbbb-uuid", "ce-cccc-uuid", "ce-dddd-uuid", "ce-eeee-uuid"}

Ctids == UuidCtids \cup {"ce-9999"}

\* `${rc.registryBaseUrl}/resources/${ctid}`
ctidBasedId(rc, ctid) == Res(rc.registryBaseUrl, ctid)

\* ---------------------------------------------------------------- schema
\* A small instance of the vocabulary index built in ctdl.ts.
NoType == ""

\* The "@type" of an entity is held as the string that JavaScript makes of it
\* when it is used as a key: a list of types is its members joined by ",".
TwoTypes == "ceterms:Badge,ceterms:OpenBadge"

\* arrayOf(type)[0], the primary type
PrimaryType(type) == IF type = TwoTypes THEN "ceterms:Badge" ELSE type

topLevelClassURIs ==
  {"ceterms:Organization", "ceterms:QACredentialOrganization",
   "ceterms:Credential", "ceterms:Badge", "ceterms:LearningOpportunityProfile"}

\* pointer properties of every top-level class of the instance, in schema order
PointerProps == <<"ceterms:ownedBy", "ceterms:approvedBy", "ceterms:requires">>

getRangeForProperty(prop) ==
  CASE prop = "ceterms:ownedBy" ->
         {"ceterms:Organization", "ceterms:QACredentialOrganization", "ceterms:Place"}
    [] prop = "ceterms:approvedBy" ->
         {"ceterms:Organization", "ceterms:QACredentialOrganization"}
    [] prop = "ceterms:requires" -> {"ceterms:ConditionProfile"}
    [] OTHER -> {}

\* classMetadata[c].subClassOf ("" when the class has no known parent)
subClassOf(c) ==
  CASE c = "ceterms:QACredentialOrganization" -> "ceterms:Organization"
    [] c = "ceterms:Organization" -> "ceterms:Agent"
    [] c = "ceterms:Badge" -> "ceterms:Credential"
    [] OTHER -> ""

\* an index that looks at the class and its parent only
classIsChildOf(c, ancestor) ==
  IF c = ancestor THEN TRUE
  ELSE IF subClassOf(c) = "" THEN FALSE
  ELSE subClassOf(c) = ancestor

RECURSIVE classIsDescendantOf(_, _)
classIsDescendantOf(c, ancestor) ==
  IF c = ancestor THEN TRUE
  ELSE IF subClassOf(c) = "" THEN FALSE
  ELSE IF subClassOf(c) = ancestor THEN TRUE
  ELSE classIsDescendantOf(subClassOf(c), ancestor)

\* endpoints[className] ("" when the class has none)
endpoints(className) ==
  CASE className \in {"ceterms:Organization", "ceterms:QACredentialOrganization"} ->
         "/organization/publishGraph"
    [] className \in {"ceterms:Credential", "ceterms:Badge"} -> "/credential/publishGraph"
    [] className = "ceterms:LearningOpportunityProfile" -> "/learningopportunity/publishGraph"
    [] OTHER -> ""

\* --------------------------------------------------------------- entities
\* A property value: a string (tag "str", the string in id) or an embedded
\* object (tag "obj").  inner holds the values of the object's own pointer
\* property (ceterms:assertedBy of a ConditionProfile).
StrVal(id) ==
  [tag |-> "str", id |-> id, type |-> NoType, ctid |-> NoCtid, sameAs |-> <<>>,
   name |-> "", inner |-> <<>>]

ObjVal(id, type, ctid, name, inner) ==
  [tag |-> "obj", id |-> id, type |-> type, ctid |-> ctid, sameAs |-> <<>>,
   name |-> name, inner |-> inner]

NoProps == [p \in {PointerProps[i] : i \in 1..Len(PointerProps)} |-> <<>>]

Entity(id, type, ctid, sameAs, name, props) ==
  [id |-> id, type |-> type, ctid |-> ctid, sameAs |-> sameAs, name |-> name,
   props |-> props]

\* the JSON object of an embedded value, seen as an entity
EntityOfVal(v) == Entity(v.id, v.type, v.ctid, v.sameAs, v.name, NoProps)

NoEntity == Entity(NoId, NoType, NoCtid, <<>>, "", NoProps)

\* ---------------------------------------------------------------- helpers
SeqToSet(s) == {s[i] : i \in 1..Len(s)}

Contains(s, x) == \E i \in 1..Len(s) : s[i] = x

\* Array.prototype.filter
RECURSIVE FilterOut(_, _)
FilterOut(s, x) ==
  IF s = <<>> THEN <<>>
  ELSE IF Head(s) = x THEN FilterOut(Tail(s), x)
  ELSE <<Head(s)>> \o FilterOut(Tail(s), x)

\* ------------------------------------------------------------ entity store
\* The store is passed around as a record s with the fields of entityStore
\* (entities in key insertion order), the number of uuids drawn so far, and the
\* fetches issued and the core.error messages written by the running call.
Store(e, sa, refs, u) ==
  [entities |-> e, sameAsIndex |-> sa, entitiesReferencedBy |-> refs, uuid |-> u,
   fetches |-> <<>>, errors |-> <<>>]

StoreEntity(key, fetched, entity, processed, sourceUrl) ==
  [key |-> key, fetched |-> fetched, entity |-> entity, processed |-> processed,
   sourceUrl |-> sourceUrl]

NoRecord == StoreEntity(NoId, FALSE, NoEntity, FALSE, NoId)

\* position of the record stored under id, 0 when there is none
IndexOf(ents, id) ==
  IF \E i \in 1..Len(ents) : ents[i].key = id
  THEN CHOOSE i \in 1..Len(ents) :
         /\ ents[i].key = id
         /\ \A j \in 1..(i - 1) : ents[j].key # id
  ELSE 0

Has(ents, id) == IndexOf(ents, id) # 0

\* entityStore.get
Get(ents, id) == IF Has(ents, id) THEN ents[IndexOf(ents, id)] ELSE NoRecord

\* entityStore.getByCtid: the first record, in key order, carrying the ctid
getByCtid(ents, ctid) ==
  IF \E i \in 1..Len(ents) : ents[i].entity.ctid = ctid
  THEN ents[CHOOSE i \in 1..Len(ents) :
              /\ ents[i].entity.ctid = ctid
              /\ \A j \in 1..(i - 1) : ents[j].entity.ctid # ctid]
  ELSE NoRecord

\* a lookup that does not look into ceterms:sameAs
getFuzzyByKey(ents, idx, ctid) ==
  IF Has(ents, idx) THEN Get(ents, idx)
  ELSE IF ctid # NoCtid THEN getByCtid(ents, ctid)
  ELSE NoRecord

\* entityStore.getFuzzy: by key, then the first record whose ceterms:sameAs
\* includes idx, then (when a ctid is given) by ctid
getFuzzy(ents, idx, ctid) ==
  IF Has(ents, idx) THEN Get(ents, idx)
  ELSE IF \E i \in 1..Len(ents) : Contains(ents[i].entity.sameAs, idx)
  THEN ents[CHOOSE i \in 1..Len(ents) :
              /\ Contains(ents[i].entity.sameAs, idx)
              /\ \A j \in 1..(i - 1) : ~Contains(ents[j].entity.sameAs, idx)]
  ELSE IF ctid # NoCtid THEN getByCtid(ents, ctid)
  ELSE NoRecord

\* a canonicalization that records the identifier it finds every time
replaceIdRecordingAlways(entity, rc) ==
  IF entity.id = NoId \/ entity.ctid = NoCtid
  THEN entity
  ELSE [entity EXCEPT
          !.id = ctidBasedId(rc, entity.ctid),
          !.sameAs = IF IsBlank(entity.id) THEN @ ELSE Append(@, entity.id)]

\* a canonicalization that leaves every identifier as it is
replaceIdNever(entity, rc) == entity

\* utils.replaceIdWithRegistryId
replaceIdWithRegistryId(entity, rc) ==
  IF entity.id = NoId \/ entity.ctid = NoCtid \/ entity.id = ctidBasedId(rc, entity.ctid)
  THEN entity
  ELSE [entity EXCEPT
          !.id = ctidBasedId(rc, entity.ctid),
          !.sameAs = IF IsBlank(entity.id) THEN @ ELSE Append(@, entity.id)]

\* a store that records a reference again when it is met again
addReferenceAgain(refs, from, to) ==
  IF from \notin DOMAIN refs
  THEN [k \in DOMAIN refs \cup {from} |-> IF k = from THEN <<to>> ELSE refs[k]]
  ELSE [refs EXCEPT ![from] = Append(@, to)]

\* a store that records no reference
addReferenceNone(refs, from, to) == refs

\* a store that puts the newest reference first
addReferenceFirst(refs, from, to) ==
  IF from \notin DOMAIN refs
  THEN [k \in DOMAIN refs \cup {from} |-> IF k = from THEN <<to>> ELSE refs[k]]
  ELSE IF ~Contains(refs[from], to)
  THEN [refs EXCEPT ![from] = <<to>> \o @]
  ELSE refs

\* entityStore.addReference
addReference(refs, from, to) ==
  IF from \notin DOMAIN refs
  THEN [k \in DOMAIN refs \cup {from} |-> IF k = from THEN <<to>> ELSE refs[k]]
  ELSE IF ~Contains(refs[from], to)
  THEN [refs EXCEPT ![from] = Append(@, to)]
  ELSE refs

\* the loop of registerEntity over ceterms:sameAs
RECURSIVE IndexSameAs(_, _, _)
IndexSameAs(sa, values, id) ==
  IF values = <<>> THEN sa
  ELSE IndexSameAs(
         [k \in DOMAIN sa \cup {Head(values)} |-> IF k = Head(values) THEN id ELSE sa[k]],
         Tail(values), id)

\* a store that writes on every registration
ShouldWriteAlways(ents, id, fetched, processed) == TRUE

\* the condition under which registerEntity writes the record
ShouldWrite(ents, id, fetched, processed) ==
  \/ ~Has(ents, id)
  \/ (Has(ents, id) /\ fetched /\ ~Get(ents, id).fetched)
  \/ (Has(ents, id) /\ processed /\ ~Get(ents, id).processed)

\* this.entities[id] = {...}: a new key goes last, an existing key keeps its place
PutRecord(ents, rec) ==
  IF Has(ents, rec.key) THEN [ents EXCEPT ![IndexOf(ents, rec.key)] = rec]
  ELSE Append(ents, rec)

\* a store that indexes ceterms:sameAs only when it writes the record
registerEntityIndexOnWrite(s, entity, fetched, rc, from, processed) ==
  IF replaceIdWithRegistryId(entity, rc).id = NoId THEN s
  ELSE [s EXCEPT
          !.entities =
            IF ShouldWrite(s.entities, replaceIdWithRegistryId(entity, rc).id, fetched,
                           processed)
            THEN PutRecord(@, StoreEntity(replaceIdWithRegistryId(entity, rc).id, fetched,
                                          replaceIdWithRegistryId(entity, rc), processed,
                                          from))
            ELSE @,
          !.entitiesReferencedBy =
            IF from # NoId
            THEN addReference(@, from, replaceIdWithRegistryId(entity, rc).id) ELSE @,
          !.sameAsIndex =
            IF ShouldWrite(s.entities, replaceIdWithRegistryId(entity, rc).id, fetched,
                           processed)
            THEN IndexSameAs(@, replaceIdWithRegistryId(entity, rc).sameAs,
                             replaceIdWithRegistryId(entity, rc).id)
            ELSE @]

\* entityStore.registerEntity: the store after the call
registerEntity(s, entity, fetched, rc, from, processed) ==
  LET newEnt == replaceIdWithRegistryId(entity, rc)
      id == newEnt.id
  IN IF id = NoId THEN s
     ELSE [s EXCEPT
             !.entities =
               IF ShouldWrite(s.entities, id, fetched, processed)
               THEN PutRecord(@, StoreEntity(id, fetched, newEnt, processed, from))
               ELSE @,
             !.entitiesReferencedBy =
               IF from # NoId THEN addReference(@, from, id) ELSE @,
             !.sameAsIndex = IndexSameAs(@, newEnt.sameAs, id)]

\* entityStore.registerEntity: the value returned (NoEntity for undefined)
registerEntityResult(entity, rc) ==
  LET newEnt == replaceIdWithRegistryId(entity, rc)
  IN IF newEnt.id = NoId THEN NoEntity ELSE newEnt


\* ------------------------------------------------------------ fetching
\* What the fetch collaborator answers for a URL: ok is response.ok, context
\* the "@context" of the JSON body ("ctdl" for the CTDL context), doc the body
\* read as one entity, graph its "@graph" when isGraph says it has one.
Response(ok, context, doc) ==
  [ok |-> ok, context |-> context, doc |-> doc, isGraph |-> FALSE, graph |-> <<>>]

GraphResponse(graph) ==
  [ok |-> TRUE, context |-> "ctdl", doc |-> NoEntity, isGraph |-> TRUE, graph |-> graph]

NotFound == Response(FALSE, "", NoEntity)

\* httpClient.fetch(entityUrl) against the documents w serves
Fetch(w, entityUrl) == IF entityUrl \in DOMAIN w THEN w[entityUrl] ELSE NotFound

\* a core.error message: its text, and the property, position and entity named
ErrorMsg(text, prop, pos, entity) ==
  [text |-> text, prop |-> prop, pos |-> pos, entity |-> entity]

\* `_:b${uuidv4()}`: the n-th uuid drawn in the run
NewBlank(n) == [kind |-> "blank", base |-> "", tail |-> "b", n |-> n]

\* a decoration that names every position
decorateIndexAlways(index) == <<index>>

\* utils.decorateIndex: "[index]", or the empty string for index 0
decorateIndex(index) == IF index > 0 THEN <<index>> ELSE <<>>

\* utils.extractCtidFromUrl: Array.prototype.find returns the ELEMENT of
\* Object.values(RegistryBaseUrls) whose callback answered truthy, i.e. the
\* base URL of the matching environment ("" stands for undefined)
UrlMatchesEnv(url, env) ==
  url.kind = "res" /\ url.base = env /\ url.tail \in UuidCtids

extractCtidFromUrl(url) ==
  IF \E i \in 1..Len(RegistryBaseUrlValues) : UrlMatchesEnv(url, RegistryBaseUrlValues[i])
  THEN RegistryBaseUrlValues[
         CHOOSE i \in 1..Len(RegistryBaseUrlValues) :
           /\ UrlMatchesEnv(url, RegistryBaseUrlValues[i])
           /\ \A j \in 1..(i - 1) : ~UrlMatchesEnv(url, RegistryBaseUrlValues[j])]
  ELSE ""

\* fetchAndRegisterEntity: r.s is the store after the call, r.defined tells
\* whether an entity is returned (otherwise undefined), r.ent is that entity
FetchResult(s, defined, ent) == [s |-> s, defined |-> defined, ent |-> ent]

fetchAndRegisterEntity(s0, w, entityUrl, rc, from) ==
  LET s == [s0 EXCEPT !.fetches = Append(@, entityUrl)]
      resp == Fetch(w, entityUrl)
      jsonData == resp.doc
  IN IF ~resp.ok THEN FetchResult(s, FALSE, NoEntity)
     ELSE IF resp.context # "ctdl"
     THEN FetchResult(
            [s EXCEPT !.errors = Append(@, ErrorMsg("context", "", <<>>, entityUrl))],
            FALSE, NoEntity)
     ELSE IF jsonData.ctid = NoCtid
     THEN LET blank == [jsonData EXCEPT !.id = NewBlank(s.uuid + 1),
                                        !.sameAs = Append(@, entityUrl)]
          IN FetchResult(
               registerEntity([s EXCEPT !.uuid = @ + 1], blank, FALSE, rc, NoId, FALSE),
               FALSE, NoEntity)
     ELSE IF jsonData.id # entityUrl
     THEN FetchResult(
            [s EXCEPT !.errors = Append(@, ErrorMsg("id", "", <<>>, entityUrl))],
            FALSE, NoEntity)
     ELSE FetchResult(
            registerEntity(s, jsonData, TRUE, rc, from, FALSE),
            registerEntityResult(jsonData, rc) # NoEntity,
            registerEntityResult(jsonData, rc))


\* ------------------------------------------------------- entity processor
\* The loops of processEntity thread a record w: the store w.s, the tempArray
\* w.out, and w.status: "ok", "return" (the function returned undefined) or
\* "TypeError" (a property of undefined was read, which throws).
Work(s, out, status) == [s |-> s, out |-> out, status |-> status]

\* if (newEntity) { tempArray.push(newEntity["@id"]) }
PushIfDefined(out, r) ==
  Work(r.s, IF r.defined THEN Append(out, r.ent.id) ELSE out, "ok")

\* processConditionProfile, one value of the profile's pointer property
CPValue(w, web0, propValue, rc, parentEntityId) ==
  LET matchingEntity == getFuzzy(w.s.entities, propValue, NoCtid)
  IN IF matchingEntity # NoRecord
     THEN [w EXCEPT !.out = Append(@, matchingEntity.entity.id)]
     ELSE IF StartsWithHttp(propValue)
     THEN LET ctid_match == extractCtidFromUrl(propValue)
              out1 == IF ctid_match # ""
                      THEN Append(w.out, Res(rc.registryBaseUrl, ctid_match))
                      ELSE w.out
          IN PushIfDefined(out1, fetchAndRegisterEntity(w.s, web0, propValue, rc,
                                                        parentEntityId))
     ELSE w

RECURSIVE CPValues(_, _, _, _, _)
CPValues(w, web0, values, rc, parentEntityId) ==
  IF values = <<>> THEN w
  ELSE CPValues(CPValue(w, web0, Head(values), rc, parentEntityId), web0,
                Tail(values), rc, parentEntityId)

\* cp[prop] = tempArray
ProfileWith(cp, w) == Work(w.s, [cp EXCEPT !.inner = w.out], "ok")

\* processConditionProfile: r.s the store after it, r.out the profile returned
processConditionProfile(s, web0, cp, rc, parentEntityId) ==
  IF cp.inner = <<>> THEN Work(s, cp, "ok")
  ELSE ProfileWith(cp, CPValues(Work(s, <<>>, "ok"), web0, cp.inner, rc, parentEntityId))

\* tempArray.push(newEntity["@id"]) with no check that newEntity is defined
PushFetched(out, r) ==
  IF r.defined THEN Work(r.s, Append(out, StrVal(r.ent.id)), "ok")
  ELSE Work(r.s, out, "TypeError")

\* processEntity, the branch for a string value
StringValue(w, web0, docId, propValue, rc) ==
  LET existingEntity == getFuzzy(w.s.entities, propValue, NoCtid)
      ctid_match == extractCtidFromUrl(propValue)
  IN IF existingEntity # NoRecord
     THEN [w EXCEPT !.out = Append(@, StrVal(existingEntity.entity.id))]
     ELSE IF ctid_match # ""
     THEN [w EXCEPT !.out = Append(@, StrVal(Res(rc.registryBaseUrl, ctid_match)))]
     ELSE IF StartsWithHttp(propValue)
     THEN PushFetched(w.out, fetchAndRegisterEntity(w.s, web0, propValue, rc, docId))
     ELSE w

\* a registration of an embedded object that names no source entity
RegisterAndPushNoSource(w, ent, rc, docId) ==
  IF registerEntityResult(ent, rc) = NoEntity
  THEN Work(registerEntity(w.s, ent, FALSE, rc, NoId, FALSE), w.out, "TypeError")
  ELSE Work(registerEntity(w.s, ent, FALSE, rc, NoId, FALSE),
            Append(w.out, StrVal(registerEntityResult(ent, rc).id)), "ok")

\* registerEntity(...) followed by tempArray.push(newEntity["@id"])
RegisterAndPush(w, ent, rc, docId) ==
  LET s1 == registerEntity(w.s, ent, FALSE, rc, docId, FALSE)
      newEntity == registerEntityResult(ent, rc)
  IN IF newEntity = NoEntity THEN Work(s1, w.out, "TypeError")
     ELSE Work(s1, Append(w.out, StrVal(newEntity.id)), "ok")

\* tempArray.push(processConditionProfile(...))
PushProfile(out, r) == Work(r.s, Append(out, r.out), "ok")

\* processEntity, the branch for an embedded object
ObjectValue(w, web0, docId, entityId, prop, index, propValue, rc) ==
  LET nodeType == propValue.type
  IN IF nodeType = NoType THEN [w EXCEPT !.out = Append(@, propValue)]
     ELSE IF nodeType \notin getRangeForProperty(prop)
     THEN [w EXCEPT
             !.s.errors = Append(@, ErrorMsg("invalid value", prop,
                                             decorateIndex(index), entityId)),
             !.status = "return"]
     ELSE IF nodeType = "ceterms:ConditionProfile"
     THEN PushProfile(w.out, processConditionProfile(w.s, web0, propValue, rc, docId))
     ELSE IF nodeType \in topLevelClassURIs /\ (IsBlank(propValue.id) \/ propValue.ctid # NoCtid)
     THEN RegisterAndPush(w, EntityOfVal(propValue), rc, docId)
     ELSE IF nodeType \in topLevelClassURIs
     THEN LET e == EntityOfVal(propValue)
              blank == [e EXCEPT !.id = NewBlank(w.s.uuid + 1),
                                 !.sameAs = IF e.id # NoId THEN Append(@, e.id) ELSE @]
          IN RegisterAndPush([w EXCEPT !.s.uuid = @ + 1], blank, rc, docId)
     ELSE [w EXCEPT !.out = Append(@, propValue)]

\* the loop over propArray.entries(); index counts from 0
RECURSIVE PropValues(_, _, _, _, _, _, _, _)
PropValues(w, web0, docId, entityId, prop, index, values, rc) ==
  IF values = <<>> \/ w.status # "ok" THEN w
  ELSE LET propValue == Head(values)
           w1 == IF propValue.tag = "str"
                 THEN StringValue(w, web0, docId, propValue.id, rc)
                 ELSE ObjectValue(w, web0, docId, entityId, prop, index, propValue, rc)
       IN PropValues(w1, web0, docId, entityId, prop, index + 1, Tail(values), rc)

\* newDoc[prop] = tempArray, reached when the loop over the values ran through
DocumentWith(doc, prop, r) ==
  Work(r.s, IF r.status = "ok" THEN [doc EXCEPT !.props[prop] = r.out] ELSE doc, r.status)

\* the loop over the pointer properties; w.out carries the document
RECURSIVE Pointers(_, _, _, _, _)
Pointers(w, web0, entityId, i, rc) ==
  IF i > Len(PointerProps) \/ w.status # "ok" THEN w
  ELSE LET prop == PointerProps[i]
           doc == w.out
       IN IF doc.props[prop] = <<>> THEN Pointers(w, web0, entityId, i + 1, rc)
          ELSE Pointers(
                 DocumentWith(doc, prop,
                              PropValues(Work(w.s, <<>>, "ok"), web0, doc.id, entityId, prop,
                                         0, doc.props[prop], rc)),
                 web0, entityId, i + 1, rc)

\* processEntity, "Process @id sameAs reference"
CanonicalizeId(doc, rc) ==
  IF /\ doc.id # NoId
     /\ ~(doc.id.kind = "res" /\ doc.id.base = rc.registryBaseUrl)
     /\ ~IsBlank(doc.id)
  THEN [doc EXCEPT !.sameAs = Append(FilterOut(@, doc.id), doc.id),
                   !.id = ctidBasedId(rc, doc.ctid)]
  ELSE doc

\* the end of processEntity: the resolved document is registered as processed
RegisterProcessed(w, rc, sourceGraphUrl) ==
  IF w.status # "ok" THEN Work(w.s, NoEntity, w.status)
  ELSE Work(registerEntity(w.s, w.out, TRUE, rc, sourceGraphUrl, TRUE), w.out, "ok")

\* a processor that takes every entity for a top-level one
processEntityAnyType(s, web0, entity, rc, sourceGraphUrl) ==
  IF entity.ctid = NoCtid /\ entity.id = NoId
  THEN Work(s, NoEntity, "TypeError")
  ELSE IF entity.ctid = NoCtid /\ ~IsBlank(entity.id)
  THEN Work([s EXCEPT !.errors = Append(@, ErrorMsg("No CTID found", "", <<>>, entity.id))],
            NoEntity, "return")
  ELSE RegisterProcessed(
         Pointers(Work(s, CanonicalizeId(entity, rc), "ok"), web0, entity.id, 1, rc),
         rc, sourceGraphUrl)

\* processEntity: r.s the store after the call; r.status "unchanged" (the input
\* is returned as it is), "return" (undefined is returned), "TypeError" (the
\* call throws) or "ok" (r.out is the resolved document returned)
processEntity(s, web0, entity, rc, sourceGraphUrl) ==
  IF entity.type = NoType \/ PrimaryType(entity.type) \notin topLevelClassURIs
  THEN Work(s, entity, "unchanged")
  ELSE IF entity.ctid = NoCtid /\ entity.id = NoId
  THEN Work(s, NoEntity, "TypeError")
  ELSE IF entity.ctid = NoCtid /\ ~IsBlank(entity.id)
  THEN Work([s EXCEPT !.errors = Append(@, ErrorMsg("No CTID found", "", <<>>, entity.id))],
            NoEntity, "return")
  ELSE RegisterProcessed(
         Pointers(Work(s, CanonicalizeId(entity, rc), "ok"), web0, entity.id, 1, rc),
         rc, sourceGraphUrl)


\* ------------------------------------------------- extraction and ordering
\* extractGraphForEntity: the "@graph" of the document (<<>> for undefined)
RECURSIVE ReferencedEntities(_, _)
ReferencedEntities(ents, referencedIds) ==
  IF referencedIds = <<>> THEN <<>>
  ELSE LET e == Get(ents, Head(referencedIds)).entity
           rest == ReferencedEntities(ents, Tail(referencedIds))
       IN IF /\ Has(ents, Head(referencedIds))
             /\ e.id # NoId
             /\ (IsBlank(e.id)
                   \/ (IF e.type = NoType THEN "ceterms:Organization"
                       ELSE PrimaryType(e.type))
                        \notin topLevelClassURIs)
          THEN <<e>> \o rest
          ELSE rest

extractGraphForEntity(ents, refs, entityId) ==
  IF ~Has(ents, entityId) THEN <<>>
  ELSE <<Get(ents, entityId).entity>>
         \o ReferencedEntities(ents, IF entityId \in DOMAIN refs THEN refs[entityId] ELSE <<>>)

\* a comparator that puts credentials before organizations
CompareCredentialFirst(a, b) ==
  IF classIsDescendantOf(a.entity.type, "ceterms:Credential")
       /\ ~classIsDescendantOf(b.entity.type, "ceterms:Credential") THEN -1
  ELSE IF ~classIsDescendantOf(a.entity.type, "ceterms:Credential")
            /\ classIsDescendantOf(b.entity.type, "ceterms:Credential") THEN 1
  ELSE 0

\* the comparator handed to sort() in getOrderedEntitiesToPublish
CompareForPublication(a, b) ==
  LET aIsOrg == classIsDescendantOf(PrimaryType(a.entity.type), "ceterms:Organization")
      bIsOrg == classIsDescendantOf(PrimaryType(b.entity.type), "ceterms:Organization")
      aIsCred == classIsDescendantOf(PrimaryType(a.entity.type), "ceterms:Credential")
      bIsCred == classIsDescendantOf(PrimaryType(b.entity.type), "ceterms:Credential")
  IN IF aIsOrg /\ ~bIsOrg THEN -1
     ELSE IF ~aIsOrg /\ bIsOrg THEN 1
     ELSE IF aIsCred /\ ~bIsCred THEN -1
     ELSE IF ~aIsCred /\ bIsCred THEN 1
     ELSE 0

\* Array.prototype.sort is stable: x goes before the first element that the
\* comparator puts after it
RECURSIVE InsertSorted(_, _)
InsertSorted(sorted, x) ==
  IF sorted = <<>> THEN <<x>>
  ELSE IF CompareForPublication(Head(sorted), x) > 0 THEN <<x>> \o sorted
  ELSE <<Head(sorted)>> \o InsertSorted(Tail(sorted), x)

RECURSIVE StableSort(_, _)
StableSort(sorted, rest) ==
  IF rest = <<>> THEN sorted ELSE StableSort(InsertSorted(sorted, Head(rest)), Tail(rest))

\* a filter that looks at the entity's @id only
SelectedById(rec, urlsArray) ==
  /\ Contains(urlsArray, rec.entity.id)
  /\ PrimaryType(rec.entity.type) \in topLevelClassURIs

\* the two filters of getOrderedEntitiesToPublish
SelectedForPublication(rec, urlsArray) ==
  /\ \/ Contains(urlsArray, rec.entity.id)
     \/ \E i \in 1..Len(rec.entity.sameAs) : Contains(urlsArray, rec.entity.sameAs[i])
  /\ PrimaryType(rec.entity.type) \in topLevelClassURIs

RECURSIVE FilterSelected(_, _)
FilterSelected(ents, urlsArray) ==
  IF ents = <<>> THEN <<>>
  ELSE IF SelectedForPublication(Head(ents), urlsArray)
  THEN <<Head(ents)>> \o FilterSelected(Tail(ents), urlsArray)
  ELSE FilterSelected(Tail(ents), urlsArray)

getOrderedEntitiesToPublish(ents, urlsArray) ==
  LET sorted == StableSort(<<>>, FilterSelected(ents, urlsArray))
  IN [i \in 1..Len(sorted) |-> sorted[i].entity.id]


\* ----------------------------------------------------------------- inputs
U1 == Url("https://example.com/credential/1")

U2 == Url("https://example.com/theOrganization")

SRC == Url("https://example.com/graph/1")

CtidA == "ce-aaaa-uuid"

CtidB == "ce-bbbb-uuid"

RA == ctidBasedId(defaultRC, CtidA)

RB == ctidBasedId(defaultRC, CtidB)

\* resource URLs of another registry environment
PA == Res(RegistryBaseUrls.production, CtidA)

PB == Res(RegistryBaseUrls.production, CtidB)

BX == Blank("x")

\* a top-level entity without pointer properties
Plain(id, type, ctid, sameAs, name) == Entity(id, type, ctid, sameAs, name, NoProps)

\* the entities handed to registerEntity
RegisterInputs ==
  {Plain(RA, "ceterms:Badge", CtidA, <<>>, "n1"),
   Plain(U1, "ceterms:Badge", CtidA, <<>>, "n2"),
   Plain(U1, "ceterms:Organization", CtidB, <<>>, "n2"),
   Plain(RB, "ceterms:Organization", CtidB, <<>>, "n1"),
   Plain(BX, "ceterms:Organization", NoCtid, <<>>, "n1"),
   Plain(NoId, "ceterms:Badge", CtidA, <<>>, "n1")}

\* embedded objects and strings met in ceterms:ownedBy
OwnedByValues ==
  {StrVal(U2), StrVal(PB), StrVal(RB), StrVal(BX),
   ObjVal(NoId, "ceterms:QACredentialOrganization", NoCtid, "org", <<>>),
   ObjVal(U2, "ceterms:Organization", NoCtid, "org", <<>>),
   ObjVal(BX, "ceterms:Organization", NoCtid, "org", <<>>),
   ObjVal(U2, "ceterms:Organization", CtidB, "org", <<>>),
   ObjVal(NoId, "ceterms:Organization", CtidB, "org", <<>>),
   ObjVal(NoId, "ceterms:Place", NoCtid, "place", <<>>),
   ObjVal(NoId, NoType, NoCtid, "untyped", <<>>),
   ObjVal(U2, "ceterms:Badge", CtidB, "badge", <<>>)}

OwnedByLists ==
  {<<v>> : v \in OwnedByValues}
    \cup {<<StrVal(RB), ObjVal(U2, "ceterms:Badge", CtidB, "badge", <<>>)>>,
          <<StrVal(U2), StrVal(PB)>>,
          <<ObjVal(BX, "ceterms:Organization", NoCtid, "org", <<>>), StrVal(U2)>>}

RequiresLists ==
  {<<ObjVal(NoId, "ceterms:ConditionProfile", NoCtid, "cp", inner)>> :
     inner \in {<<>>, <<U2>>, <<PB>>}}

\* values of ceterms:ownedBy and ceterms:approvedBy of one entity
TwoPropertyLists ==
  {<<<<ObjVal(BX, "ceterms:Organization", NoCtid, "org", <<>>)>>,
     <<ObjVal(BX, "ceterms:Organization", NoCtid, "org", <<>>)>>>>,
   <<<<ObjVal(BX, "ceterms:Organization", NoCtid, "org", <<>>)>>,
     <<ObjVal(BX, "ceterms:QACredentialOrganization", NoCtid, "other", <<>>)>>>>,
   <<<<StrVal(U2)>>, <<StrVal(U2)>>>>}

\* the entities handed to processEntity
ProcessInputs ==
  {Plain(U1, "ceterms:Badge", CtidA, <<>>, "n1"),
   Plain(U1, "ceterms:Badge", CtidA, <<U1, SRC>>, "n2"),
   Plain(RB, "ceterms:Badge", CtidA, <<>>, "n1"),
   Plain(PA, "ceterms:Badge", CtidA, <<>>, "n1"),
   Plain(RA, "ceterms:Badge", CtidA, <<>>, "n2"),
   Plain(U1, "ceterms:Badge", NoCtid, <<>>, "n1"),
   Plain(BX, "ceterms:Organization", NoCtid, <<>>, "n2"),
   Plain(BX, "ceterms:Badge", CtidA, <<>>, "n1"),
   Plain(NoId, "ceterms:Badge", NoCtid, <<>>, "n1"),
   Plain(U1, "ceterms:ConditionProfile", NoCtid, <<>>, "n1"),
   Entity(U1, "ceterms:Place", CtidA, <<>>, "n1",
          [NoProps EXCEPT !["ceterms:ownedBy"] = <<StrVal(U2)>>]),
   Entity(BX, "ceterms:Organization", NoCtid, <<>>, "n1",
          [NoProps EXCEPT !["ceterms:ownedBy"] =
             <<ObjVal(BX, "ceterms:Organization", NoCtid, "org", <<>>)>>])}
    \cup {Entity(U1, "ceterms:Badge", CtidA, <<>>, "n1",
                 [NoProps EXCEPT !["ceterms:ownedBy"] = l]) : l \in OwnedByLists}
    \cup {Entity(U1, "ceterms:Badge", CtidA, <<>>, "n1",
                 [NoProps EXCEPT !["ceterms:requires"] = l]) : l \in RequiresLists}
    \cup {Entity(U1, "ceterms:Organization", CtidB, <<>>, "n1",
                 [NoProps EXCEPT !["ceterms:ownedBy"] = <<StrVal(U2)>>])}
    \cup {Entity(U1, "ceterms:Badge", CtidA, <<>>, "n1",
                 [NoProps EXCEPT !["ceterms:ownedBy"] = l[1],
                                 !["ceterms:approvedBy"] = l[2]]) : l \in TwoPropertyLists}

\* the documents the web serves at U2, and at the production registry
Webs ==
  {[u \in {U2} |-> r] :
     r \in {NotFound,
            Response(TRUE, "other", Plain(U2, "ceterms:Organization", CtidB, <<>>, "org")),
            Response(TRUE, "ctdl", Plain(U2, "ceterms:Organization", CtidB, <<>>, "org")),
            Response(TRUE, "ctdl", Plain(U1, "ceterms:Organization", CtidB, <<>>, "org")),
            Response(TRUE, "ctdl", Plain(U2, "ceterms:Organization", NoCtid, <<>>, "org")),
            Response(TRUE, "ctdl", Plain(U2, "ceterms:Place", CtidB, <<>>, "place")),
            Response(TRUE, "ctdl", Plain(U2, NoType, CtidB, <<>>, "thing"))}}
    \cup {[u \in {U2, PB} |->
             IF u = PB
             THEN Response(TRUE, "ctdl", Plain(PB, "ceterms:Organization", CtidB, <<>>, "org"))
             ELSE NotFound]}


\* the classes of the instance that have an entry in classMetadata
KnownClasses ==
  {"ceterms:Organization", "ceterms:QACredentialOrganization", "ceterms:Agent",
   "ceterms:Credential", "ceterms:Badge", "ceterms:LearningOpportunityProfile",
   "ceterms:ConditionProfile", "ceterms:Place"}

\* the class names put to classIsDescendantOf: the known classes, names the
\* vocabulary does not have, a name every object inherits, and the empty name
AskedClasses == KnownClasses \cup {"ceterms:Foo", "ceterms:Bar", "constructor", NoType}

\* a question classIsDescendantOf(c, ancestor) and the answer returned
Asked(c, ancestor, answer) == [c |-> c, ancestor |-> ancestor, answer |-> answer]

NoAsk == Asked(NoType, NoType, FALSE)

VARIABLES
  entities, sameAsIndex, entitiesReferencedBy,  \* the fields of entityStore
  uuid,               \* how many uuids uuidv4() has handed out
  web,                \* what httpClient.fetch answers for each URL
  call,               \* the last call made and its outcome
  ops,                \* how many calls were made on the store
  pc,                 \* where runInternal is
  inputs,             \* what core.getInput answers for the configuration inputs
  asked,              \* the last question put to the vocabulary index, and its answer
  dryRun,             \* registryConfig.dryRun
  urlsArray, idx,     \* the source URLs and the position of the loop over them
  entitiesToProcess,  \* the snapshot of unprocessed keys still to visit
  toPublish,          \* the ordered entities still to visit
  submitted,          \* the publish requests sent
  failed              \* core.setFailed was called

storeVars == <<entities, sameAsIndex, entitiesReferencedBy, uuid>>

runVars == <<pc, inputs, asked, dryRun, urlsArray, idx, entitiesToProcess, toPublish, submitted, failed>>

vars == <<storeVars, web, call, ops, runVars>>

\* what the last call was: its arguments, the entity records as they were
\* before it, and its outcome
Call(op, entity, fetched, processed, from, before, status, ret, fetches, errors) ==
  [op |-> op, entity |-> entity, fetched |-> fetched, processed |-> processed,
   from |-> from, before |-> before, status |-> status, ret |-> ret,
   fetches |-> fetches, errors |-> errors]

NoCall == Call("none", NoEntity, FALSE, FALSE, NoId, <<>>, "", NoEntity, <<>>, <<>>)

EmptyIndex == [k \in {} |-> NoId]

EmptyGraph == [k \in {} |-> <<>>]

CurrentStore == Store(entities, sameAsIndex, entitiesReferencedBy, uuid)

SetStore(s) ==
  /\ entities' = s.entities
  /\ sameAsIndex' = s.sameAsIndex
  /\ entitiesReferencedBy' = s.entitiesReferencedBy
  /\ uuid' = s.uuid

Init ==
  /\ entities = <<>>
  /\ sameAsIndex = EmptyIndex
  /\ entitiesReferencedBy = EmptyGraph
  /\ uuid = 0
  /\ web \in Webs
  /\ call = NoCall
  /\ ops = 0
  /\ pc = "api"
  /\ inputs = ValidInputs
  /\ asked = NoAsk
  /\ dryRun = FALSE
  /\ urlsArray = <<>>
  /\ idx = 0
  /\ entitiesToProcess = <<>>
  /\ toPublish = <<>>
  /\ submitted = <<>>
  /\ failed = FALSE

\* entityStore.registerEntity(entity, fetched, rc, from, processed)
RegisterEntity(entity, fetched, from, processed) ==
  /\ ops < MaxOps
  /\ call' = Call("registerEntity", entity, fetched, processed, from, entities, "ok",
                  registerEntityResult(entity, defaultRC), <<>>, <<>>)
  /\ SetStore(registerEntity(CurrentStore, entity, fetched, defaultRC, from, processed))
  /\ ops' = ops + 1
  /\ UNCHANGED <<web, runVars>>

\* what a processEntity call leaves: the store, and the call as it went
Returned(entity, sourceGraphUrl, before, r) ==
  /\ call' = Call("processEntity", entity, TRUE, TRUE, sourceGraphUrl, before, r.status,
                  r.out, r.s.fetches, r.s.errors)
  /\ SetStore(r.s)

\* await processEntity(entity, rc, sourceGraphUrl)
ProcessEntity(entity, sourceGraphUrl) ==
  /\ ops < MaxOps
  /\ Returned(entity, sourceGraphUrl, entities,
              processEntity(CurrentStore, web, entity, defaultRC, sourceGraphUrl))
  /\ ops' = ops + 1
  /\ UNCHANGED <<web, runVars>>

\* entityStore.reset()
Reset ==
  /\ ops < MaxOps
  /\ entities' = <<>>
  /\ sameAsIndex' = EmptyIndex
  /\ entitiesReferencedBy' = EmptyGraph
  /\ call' = [NoCall EXCEPT !.op = "reset"]
  /\ ops' = ops + 1
  /\ UNCHANGED <<uuid, web, runVars>>

Next ==
  \/ \E e \in RegisterInputs, f \in BOOLEAN, p \in BOOLEAN, from \in {NoId, SRC} :
       /\ from = SRC => e.id \in {RA, RB}
       /\ RegisterEntity(e, f, from, p)
  \/ \E e \in ProcessInputs, src \in {NoId, SRC} :
       /\ src = SRC => e.props = NoProps
       /\ ProcessEntity(e, src)
  \/ Reset

Spec == Init /\ [][Next]_vars

\* ----------------------------------------------------------------- runner
S1 == Url("https://example.com/source/1")

S2 == Url("https://example.com/source/2")

WithOwnedBy(id, ctid, l) ==
  Entity(id, "ceterms:Badge", ctid, <<>>, "n1", [NoProps EXCEPT !["ceterms:ownedBy"] = l])

OutOfRange == ObjVal(U2, "ceterms:Badge", CtidB, "badge", <<>>)

\* what the first source URL serves
SourceDocs1 ==
  {Response(TRUE, "ctdl", WithOwnedBy(S1, CtidA, <<StrVal(U2)>>)),
   Response(TRUE, "ctdl", WithOwnedBy(S1, CtidA, <<OutOfRange>>)),
   Response(TRUE, "ctdl", WithOwnedBy(S1, CtidA, <<StrVal(PB), OutOfRange>>)),
   Response(TRUE, "ctdl", Plain(S1, "ceterms:Badge", NoCtid, <<>>, "n1")),
   GraphResponse(<<WithOwnedBy(S1, CtidA, <<StrVal(BX)>>),
                   Plain(BX, "ceterms:Organization", NoCtid, <<>>, "org")>>),
   Response(TRUE, "other", Plain(S1, "ceterms:Badge", CtidA, <<>>, "n1")),
   NotFound}

SourceDocs2Plain ==
  Response(TRUE, "ctdl", Plain(S2, "ceterms:Organization", CtidB, <<>>, "n2"))

\* what the second source URL serves
SourceDocs2 ==
  {Response(TRUE, "ctdl", Plain(S2, "ceterms:Organization", CtidB, <<>>, "n2")),
   Response(TRUE, "ctdl", Plain(S2, "ceterms:LearningOpportunityProfile", CtidA, <<>>, "n2")),
   Response(TRUE, "ctdl", Entity(S2, "ceterms:Organization", CtidB, <<>>, "n2",
                                 [NoProps EXCEPT !["ceterms:ownedBy"] = <<StrVal(U2)>>]))}

\* documents that reference each other in a cycle: S1 -> U2 -> S2 -> U2
CyclicWeb ==
  [u \in {S1, S2, U2} |->
     IF u = S1 THEN Response(TRUE, "ctdl", WithOwnedBy(S1, CtidA, <<StrVal(U2)>>))
     ELSE IF u = U2
     THEN Response(TRUE, "ctdl", Entity(U2, "ceterms:Organization", CtidB, <<>>, "org",
                                        [NoProps EXCEPT !["ceterms:ownedBy"] = <<StrVal(S2)>>]))
     ELSE Response(TRUE, "ctdl", Entity(S2, "ceterms:Organization", "ce-cccc-uuid", <<>>, "n2",
                                        [NoProps EXCEPT !["ceterms:ownedBy"] = <<StrVal(U2)>>]))]

\* two documents that each embed an organization under the blank identifier
\* _:x, with different content
SharedBlankWeb ==
  [u \in {S1, S2, U2} |->
     IF u = S1
     THEN Response(TRUE, "ctdl",
                   WithOwnedBy(S1, CtidA,
                               <<ObjVal(BX, "ceterms:Organization", NoCtid, "org", <<>>)>>))
     ELSE IF u = S2
     THEN Response(TRUE, "ctdl",
                   Entity(S2, "ceterms:Organization", CtidB, <<>>, "n2",
                          [NoProps EXCEPT !["ceterms:ownedBy"] =
                             <<ObjVal(BX, "ceterms:QACredentialOrganization", NoCtid, "other",
                                      <<>>)>>]))
     ELSE NotFound]

\* a source "@graph" whose first entity holds a value that is out of the
\* range of its property
InvalidGraphWeb ==
  [u \in {S1, S2, U2} |->
     IF u = S1 THEN GraphResponse(<<WithOwnedBy(S1, CtidA, <<OutOfRange>>)>>)
     ELSE IF u = S2 THEN SourceDocs2Plain
     ELSE NotFound]

\* a source document whose "@type" is a list of two types
ListTypeWeb ==
  [u \in {S1, S2, U2} |->
     IF u = S1 THEN Response(TRUE, "ctdl", Plain(S1, TwoTypes, CtidA, <<>>, "n1"))
     ELSE IF u = S2 THEN SourceDocs2Plain
     ELSE NotFound]

RunWebs ==
  {[u \in {S1, S2, U2} |-> IF u = S1 THEN d1 ELSE IF u = S2 THEN d2 ELSE w[U2]] :
     d1 \in SourceDocs1, d2 \in SourceDocs2, w \in Webs}
    \cup {CyclicWeb, SharedBlankWeb, InvalidGraphWeb, ListTypeWeb}

RunInit ==
  /\ entities = <<>>
  /\ sameAsIndex = EmptyIndex
  /\ entitiesReferencedBy = EmptyGraph
  /\ uuid = 0
  /\ web \in RunWebs
  /\ call = NoCall
  /\ ops = 0
  /\ pc = "config"
  /\ inputs \in ConfigInputs
  /\ asked = NoAsk
  /\ dryRun \in BOOLEAN
  /\ urlsArray \in {<<S1>>, <<S1, S2>>, <<S2, S1>>}
  /\ idx = 1
  /\ entitiesToProcess = <<>>
  /\ toPublish = <<>>
  /\ submitted = <<>>
  /\ failed = FALSE
  /\ inputs # ValidInputs => (dryRun /\ urlsArray = <<S1>> /\ web[S1] = NotFound
                               /\ web[S2] = SourceDocs2Plain /\ web[U2] = NotFound)

\* the configuration is read and validated; a bad input is a critical error
RunConfig ==
  /\ pc = "config"
  /\ IF registryBaseUrlOf(inputs.registry_env) = ""
     THEN /\ call' = [NoCall EXCEPT !.op = "critical", !.status = "registry_env"]
          /\ pc' = "failed"
          /\ failed' = TRUE
     ELSE IF inputs.registry_api_key = ""
     THEN /\ call' = [NoCall EXCEPT !.op = "critical", !.status = "registry_api_key"]
          /\ pc' = "failed"
          /\ failed' = TRUE
     ELSE IF inputs.organization_ctid = ""
     THEN /\ call' = [NoCall EXCEPT !.op = "critical", !.status = "organization_ctid"]
          /\ pc' = "failed"
          /\ failed' = TRUE
     ELSE /\ call' = [NoCall EXCEPT !.op = "config"]
          /\ pc' = IF registryBaseUrlOf(inputs.registry_env) = defaultRC.registryBaseUrl
                   THEN "sources" ELSE "misconfigured"
          /\ failed' = FALSE
  /\ UNCHANGED <<storeVars, web, ops, inputs, asked, dryRun, urlsArray, idx, entitiesToProcess,
                 toPublish, submitted>>

\* documentIsCtdlJsonEntity(json, url)
documentIsCtdlJsonEntity(json) == json.context = "ctdl"

\* documentIsAGraph(json, url)
documentIsAGraph(json) == json.isGraph

\* the registrations of the entities of a source "@graph"
RECURSIVE RegisterGraph(_, _, _, _)
RegisterGraph(s, graph, rc, url) ==
  IF graph = <<>> THEN s
  ELSE RegisterGraph(registerEntity(s, Head(graph), TRUE, rc, url, FALSE), Tail(graph), rc, url)

\* a run that any processEntity error ends
ProcessedOrStopped(entity, sourceUrl, before, r) ==
  /\ Returned(entity, sourceUrl, before, r)
  /\ failed' = (r.status \in {"TypeError", "return"})
  /\ pc' = IF r.status \in {"TypeError", "return"} THEN "failed" ELSE pc

\* a processEntity call of the run: a TypeError ends the run in the catch of run()
Processed(entity, sourceUrl, before, r) ==
  /\ Returned(entity, sourceUrl, before, r)
  /\ failed' = (r.status = "TypeError")
  /\ pc' = IF r.status = "TypeError" THEN "failed" ELSE pc

RunProcessEntity(s, entity, sourceUrl) ==
  Processed(entity, sourceUrl, s.entities, processEntity(s, web, entity, defaultRC, sourceUrl))

\* one round of the loop over urlsArray
RunSource ==
  /\ pc = "sources"
  /\ idx <= Len(urlsArray)
  /\ LET url == urlsArray[idx]
         json == Fetch(web, url)
     IN IF ~json.ok
        THEN /\ pc' = "failed"
             /\ failed' = TRUE
             /\ call' = [NoCall EXCEPT !.op = "critical"]
             /\ UNCHANGED storeVars
        ELSE IF documentIsCtdlJsonEntity(json) /\ documentIsAGraph(json)
        THEN IF json.graph # <<>>
             THEN RunProcessEntity(RegisterGraph(CurrentStore, json.graph, defaultRC, url),
                                   json.graph[1], url)
             ELSE /\ call' = [NoCall EXCEPT !.op = "skip"]
                  /\ UNCHANGED <<storeVars, pc, failed>>
        ELSE IF documentIsCtdlJsonEntity(json)
        THEN RunProcessEntity(CurrentStore, json.doc, url)
        ELSE /\ call' = [NoCall EXCEPT !.op = "skip"]
             /\ UNCHANGED <<storeVars, pc, failed>>
  /\ idx' = idx + 1
  /\ UNCHANGED <<web, ops, inputs, asked, dryRun, urlsArray, entitiesToProcess, toPublish, submitted>>

\* Object.keys(entityStore.entities).filter(not processed)
RECURSIVE UnprocessedKeys(_)
UnprocessedKeys(ents) ==
  IF ents = <<>> THEN <<>>
  ELSE IF ~Head(ents).processed THEN <<Head(ents).key>> \o UnprocessedKeys(Tail(ents))
  ELSE UnprocessedKeys(Tail(ents))

RunSnapshot ==
  /\ pc = "sources"
  /\ idx > Len(urlsArray)
  /\ entitiesToProcess' = UnprocessedKeys(entities)
  /\ pc' = "second"
  /\ call' = [NoCall EXCEPT !.op = "snapshot"]
  /\ UNCHANGED <<storeVars, web, ops, inputs, asked, dryRun, urlsArray, idx, toPublish, submitted, failed>>

\* a second pass that looks for unprocessed records again after every round
RunSecondPassAgain ==
  /\ pc = "second"
  /\ entitiesToProcess # <<>>
  /\ LET entity == Get(entities, Head(entitiesToProcess))
     IN RunProcessEntity(CurrentStore, entity.entity, entity.sourceUrl)
  /\ entitiesToProcess' = UnprocessedKeys(entities')
  /\ UNCHANGED <<web, ops, inputs, asked, dryRun, urlsArray, idx, toPublish, submitted>>

\* one round of the loop over entitiesToProcess
RunSecondPass ==
  /\ pc = "second"
  /\ entitiesToProcess # <<>>
  /\ LET entity == Get(entities, Head(entitiesToProcess))
     IN RunProcessEntity(CurrentStore, entity.entity, entity.sourceUrl)
  /\ entitiesToProcess' = Tail(entitiesToProcess)
  /\ UNCHANGED <<web, ops, inputs, asked, dryRun, urlsArray, idx, toPublish, submitted>>

RunOrder ==
  /\ pc = "second"
  /\ entitiesToProcess = <<>>
  /\ toPublish' = getOrderedEntitiesToPublish(entities, urlsArray)
  /\ pc' = "publish"
  /\ call' = [NoCall EXCEPT !.op = "order"]
  /\ UNCHANGED <<storeVars, web, ops, inputs, asked, dryRun, urlsArray, idx, entitiesToProcess, submitted,
                 failed>>

\* a publish request: the root, the "@graph" sent and the endpoint it went to
Submission(root, graph, endpoint) == [root |-> root, graph |-> graph, endpoint |-> endpoint]

\* a publication loop that marks the run failed and goes on
RunPublishOn(answer) ==
  /\ pc = "publish"
  /\ toPublish # <<>>
  /\ LET entityId == Head(toPublish)
         currentEntity == Get(entities, entityId)
         graph == extractGraphForEntity(entities, entitiesReferencedBy, entityId)
     IN IF currentEntity.entity.ctid = NoCtid \/ graph = <<>> \/ dryRun
        THEN /\ call' = [NoCall EXCEPT
                          !.op = "publish",
                          !.status = IF currentEntity.entity.ctid = NoCtid \/ graph = <<>>
                                     THEN "" ELSE "dryRun"]
             /\ UNCHANGED <<submitted, pc, failed>>
        ELSE /\ submitted' = Append(submitted,
                                    Submission(entityId, graph,
                                               endpoints(currentEntity.entity.type)))
             /\ failed' = (failed \/ answer # "ok")
             /\ pc' = pc
             /\ call' = [NoCall EXCEPT !.op = "publish", !.status = answer]
  /\ toPublish' = Tail(toPublish)
  /\ UNCHANGED <<storeVars, web, ops, inputs, asked, dryRun, urlsArray, idx, entitiesToProcess>>

\* a publication loop that does not look at dryRun
RunPublishWet(answer) ==
  /\ pc = "publish"
  /\ toPublish # <<>>
  /\ LET entityId == Head(toPublish)
         currentEntity == Get(entities, entityId)
         graph == extractGraphForEntity(entities, entitiesReferencedBy, entityId)
     IN IF currentEntity.entity.ctid = NoCtid \/ graph = <<>>
        THEN /\ call' = [NoCall EXCEPT !.op = "publish"]
             /\ UNCHANGED <<submitted, pc, failed>>
        ELSE /\ submitted' = Append(submitted,
                                    Submission(entityId, graph,
                                               endpoints(currentEntity.entity.type)))
             /\ failed' = (answer # "ok")
             /\ pc' = IF answer # "ok" THEN "failed" ELSE pc
             /\ call' = [NoCall EXCEPT !.op = "publish", !.status = answer]
  /\ toPublish' = Tail(toPublish)
  /\ UNCHANGED <<storeVars, web, ops, inputs, asked, dryRun, urlsArray, idx, entitiesToProcess>>

\* one round of the publication loop; answer is what the registry says to the
\* request: "ok", "notOk" (response.ok false) or "unsuccessful" (Successful
\* false); in a dry run publishDocument returns true before any request
RunPublish(answer) ==
  /\ pc = "publish"
  /\ toPublish # <<>>
  /\ LET entityId == Head(toPublish)
         currentEntity == Get(entities, entityId)
         graph == extractGraphForEntity(entities, entitiesReferencedBy, entityId)
     IN IF currentEntity.entity.ctid = NoCtid \/ graph = <<>> \/ dryRun
        THEN /\ call' = [NoCall EXCEPT
                          !.op = "publish",
                          !.status = IF currentEntity.entity.ctid = NoCtid \/ graph = <<>>
                                     THEN "" ELSE "dryRun"]
             /\ UNCHANGED <<submitted, pc, failed>>
        ELSE /\ submitted' = Append(submitted,
                                    Submission(entityId, graph,
                                               endpoints(currentEntity.entity.type)))
             /\ failed' = (answer # "ok")
             /\ pc' = IF answer # "ok" THEN "failed" ELSE pc
             /\ call' = [NoCall EXCEPT !.op = "publish", !.status = answer]
  /\ toPublish' = Tail(toPublish)
  /\ UNCHANGED <<storeVars, web, ops, inputs, asked, dryRun, urlsArray, idx, entitiesToProcess>>

RunFinish ==
  /\ pc = "publish"
  /\ toPublish = <<>>
  /\ pc' = "done"
  /\ call' = [NoCall EXCEPT !.op = "finish"]
  /\ UNCHANGED <<storeVars, web, ops, inputs, asked, dryRun, urlsArray, idx, entitiesToProcess, toPublish,
                 submitted, failed>>

RunNext ==
  \/ RunConfig
  \/ RunSource
  \/ RunSnapshot
  \/ RunSecondPass
  \/ RunOrder
  \/ \E answer \in {"ok", "notOk", "unsuccessful"} : RunPublish(answer)
  \/ RunFinish

RunSpec == RunInit /\ [][RunNext]_vars

\* ENABLED <<RunNext>>_vars as a state predicate: in each of these phases one
\* of the actions of RunNext has its guard true, and every step changes pc,
\* idx, entitiesToProcess or toPublish
RunEnabled == pc \in {"config", "sources", "second", "publish"}

\* every await of the run returns, so a run that can take a step takes one:
\* weak fairness of RunNext, WF_vars(RunNext), with its ENABLED written out
RunLive == RunSpec /\ ([]<>(~RunEnabled) \/ []<><<RunNext>>_vars)


\* ------------------------------------------------------------- orderer
\* The store filled by registerEntity calls, as the tests of
\* getOrderedEntitiesToPublish fill it, and then asked for the order.
RC == ctidBasedId(defaultRC, "ce-cccc-uuid")

RD == ctidBasedId(defaultRC, "ce-dddd-uuid")

RE == ctidBasedId(defaultRC, "ce-eeee-uuid")

\* basicEntity({...}) of the tests, an entity known by a URL of its own, and
\* a blank node
OrderInputs ==
  {Plain(RA, "ceterms:Credential", CtidA, <<>>, "a"),
   Plain(U1, "ceterms:Badge", CtidA, <<>>, "a2"),
   Plain(RB, "ceterms:Organization", CtidB, <<>>, "b"),
   Plain(RC, "ceterms:Badge", "ce-cccc-uuid", <<>>, "c"),
   Plain(RD, "ceterms:LearningOpportunityProfile", "ce-dddd-uuid", <<>>, "d"),
   Plain(RE, "ceterms:ConditionProfile", "ce-eeee-uuid", <<>>, "e"),
   Plain(BX, "ceterms:QACredentialOrganization", NoCtid, <<SRC>>, "x")}

\* the urlsArray handed to getOrderedEntitiesToPublish
OrderUrls ==
  {<<SRC>>, <<U1>>, <<RA>>, <<RE, RD, RC, RB, RA>>, <<BX, RD, SRC, U1, RC>>}

OrderInit ==
  /\ entities = <<>>
  /\ sameAsIndex = EmptyIndex
  /\ entitiesReferencedBy = EmptyGraph
  /\ uuid = 0
  /\ web \in {[u \in {} |-> NotFound]}
  /\ call = NoCall
  /\ ops = 0
  /\ pc = "register"
  /\ inputs = ValidInputs
  /\ asked = NoAsk
  /\ dryRun = FALSE
  /\ urlsArray = <<>>
  /\ idx = 0
  /\ entitiesToProcess = <<>>
  /\ toPublish = <<>>
  /\ submitted = <<>>
  /\ failed = FALSE

\* entityStore.registerEntity(entity, fetched, defaultRC, from)
OrderRegister(entity, fetched, from) ==
  /\ pc = "register"
  /\ ops < MaxRegistered
  /\ call' = Call("registerEntity", entity, fetched, FALSE, from, entities, "ok",
                  registerEntityResult(entity, defaultRC), <<>>, <<>>)
  /\ SetStore(registerEntity(CurrentStore, entity, fetched, defaultRC, from, FALSE))
  /\ ops' = ops + 1
  /\ UNCHANGED <<web, runVars>>

\* const ordered = getOrderedEntitiesToPublish(urls)
OrderAsk(urls) ==
  /\ pc = "register"
  /\ pc' = "ordered"
  /\ urlsArray' = urls
  /\ toPublish' = getOrderedEntitiesToPublish(entities, urls)
  /\ call' = [NoCall EXCEPT !.op = "getOrderedEntitiesToPublish"]
  /\ UNCHANGED <<storeVars, web, ops, inputs, asked, dryRun, idx, entitiesToProcess, submitted, failed>>

OrderNext ==
  \/ \E e \in OrderInputs, f \in BOOLEAN, from \in {NoId, SRC} :
       /\ f => e.id = U1
       /\ OrderRegister(e, f, from)
  \/ \E urls \in OrderUrls : OrderAsk(urls)

OrderSpec == OrderInit /\ [][OrderNext]_vars

\* ------------------------------------------------------- vocabulary index
ClassInit ==
  /\ entities = <<>>
  /\ sameAsIndex = EmptyIndex
  /\ entitiesReferencedBy = EmptyGraph
  /\ uuid = 0
  /\ web \in {[u \in {} |-> NotFound]}
  /\ call = NoCall
  /\ ops = 0
  /\ pc = "class"
  /\ inputs = ValidInputs
  /\ asked = NoAsk
  /\ dryRun = FALSE
  /\ urlsArray = <<>>
  /\ idx = 0
  /\ entitiesToProcess = <<>>
  /\ toPublish = <<>>
  /\ submitted = <<>>
  /\ failed = FALSE

\* classIsDescendantOf(c, ancestor)
ClassAsk(c, ancestor) ==
  /\ pc = "class"
  /\ asked' = Asked(c, ancestor, classIsDescendantOf(c, ancestor))
  /\ call' = [NoCall EXCEPT !.op = "classIsDescendantOf"]
  /\ UNCHANGED <<storeVars, web, ops, pc, inputs, dryRun, urlsArray, idx, entitiesToProcess,
                 toPublish, submitted, failed>>

ClassNext == \E c \in AskedClasses, ancestor \in AskedClasses : ClassAsk(c, ancestor)

ClassSpec == ClassInit /\ [][ClassNext]_vars

\* ------------------------------------------------------------------ claims
\* C1: registerEntity writes the record under the canonical id exactly when no
\* record exists there, or the call is fetched and the record is not, or the
\* call is processed and the record is not; otherwise the record stays as it was.
C1_MoreAuthoritative ==
  \/ Get(call.before, call.ret.id) = NoRecord
  \/ (call.fetched /\ ~Get(call.before, call.ret.id).fetched)
  \/ (call.processed /\ ~Get(call.before, call.ret.id).processed)

C1_RegisterWritesIffMoreAuthoritative ==
  (call.op = "registerEntity" /\ call.ret # NoEntity) =>
    IF C1_MoreAuthoritative
    THEN Get(entities, call.ret.id) =
           StoreEntity(call.ret.id, call.fetched, call.ret, call.processed, call.from)
    ELSE Get(entities, call.ret.id) = Get(call.before, call.ret.id)

\* a registration of different content that is not more authoritative
C1_Witness ==
  /\ call.op = "registerEntity"
  /\ call.ret # NoEntity
  /\ ~C1_MoreAuthoritative
  /\ Get(call.before, call.ret.id).entity # call.ret
  /\ Get(entities, call.ret.id).entity # call.ret

\* C2: without reset(), a record whose processed flag is true never has it
\* false again.
C2_ProcessedNeverReset ==
  [][call'.op # "reset" =>
       \A i \in 1..Len(entities) :
         entities[i].processed => Get(entities', entities[i].key).processed]_vars

\* C3: after processEntity returned a resolved document, the record under the
\* document's canonical id is fetched and processed and holds that document,
\* whatever record was there before.
C3_ProcessedDocumentOverwrites ==
  (/\ call.op = "processEntity"
   /\ call.status = "ok"
   /\ call.ret.id # NoId
   /\ replaceIdWithRegistryId(call.ret, defaultRC).id = call.ret.id) =>
    /\ Get(entities, call.ret.id).fetched
    /\ Get(entities, call.ret.id).processed
    /\ Get(entities, call.ret.id).entity = call.ret

\* C4: processEntity on a top-level entity without ctid and without blank @id
\* raises an ActionError about the missing CTID and registers nothing.
C4_MissingCtidRaises ==
  (/\ call.op = "processEntity"
   /\ call.entity.type \in topLevelClassURIs
   /\ call.entity.ctid = NoCtid
   /\ call.entity.id # NoId
   /\ ~IsBlank(call.entity.id)) =>
    /\ call.status = "ActionError"
    /\ entities = call.before


\* the string at position i of ceterms:ownedBy of the entity handed to the last
\* processEntity call (NoId when there is no string there)
OwnedByString(i) ==
  IF /\ call.op = "processEntity"
     /\ i <= Len(call.entity.props["ceterms:ownedBy"])
     /\ call.entity.props["ceterms:ownedBy"][i].tag = "str"
  THEN call.entity.props["ceterms:ownedBy"][i].id
  ELSE NoId

\* the last processEntity call fetched the URL at position i of ceterms:ownedBy
FetchedOwnedBy(i) ==
  /\ OwnedByString(i) # NoId
  /\ Contains(call.fetches, OwnedByString(i))

\* the fetch of url fails: no success status, a foreign @context, or a
\* document whose @id is not the requested URL
C5_FetchFails(url) ==
  \/ ~Fetch(web, url).ok
  \/ Fetch(web, url).context # "ctdl"
  \/ (Fetch(web, url).doc.ctid # NoCtid /\ Fetch(web, url).doc.id # url)

\* C5: when the fetch made for a string reference fails, processEntity still
\* completes for the referencing entity and the run is not aborted.
C5_FetchFailureDoesNotAbort ==
  \A i \in 1..2 :
    (FetchedOwnedBy(i) /\ C5_FetchFails(OwnedByString(i))) =>
      /\ call.status = "ok"
      /\ ~failed

\* C6: a fetched document without ctid is registered under a fresh blank
\* identifier, processEntity completes, and the property holds that identifier
\* at the position of the URL.
C6_FetchedWithoutCtidBecomesBlank ==
  \A i \in 1..2 :
    (/\ FetchedOwnedBy(i)
     /\ Fetch(web, OwnedByString(i)).ok
     /\ Fetch(web, OwnedByString(i)).context = "ctdl"
     /\ Fetch(web, OwnedByString(i)).doc.ctid = NoCtid) =>
      /\ call.status = "ok"
      /\ IsBlank(call.ret.props["ceterms:ownedBy"][i].id)
      /\ Has(entities, call.ret.props["ceterms:ownedBy"][i].id)
      /\ ~Has(call.before, call.ret.props["ceterms:ownedBy"][i].id)

\* C7: an unresolved string that is a registry resource URL of any environment
\* is replaced by {rc.registryBaseUrl}/resources/{the ctid in the URL}, without
\* a fetch.
C7_RegistryUrlSynthesized ==
  (/\ call.status = "ok"
   /\ OwnedByString(1).kind = "res"
   /\ Contains(RegistryBaseUrlValues, OwnedByString(1).base)
   /\ OwnedByString(1).tail \in UuidCtids
   /\ getFuzzy(call.before, OwnedByString(1), NoCtid) = NoRecord) =>
    /\ call.ret.props["ceterms:ownedBy"][1] =
         StrVal(Res(defaultRC.registryBaseUrl, OwnedByString(1).tail))
    /\ ~Contains(call.fetches, OwnedByString(1))

\* C8: a top-level entity with ctid C and an @id that is neither blank nor the
\* canonical id comes back with the canonical @id, its old @id once, last, in
\* ceterms:sameAs, and is stored under the canonical @id.
C8_IdCanonicalized ==
  (/\ call.op = "processEntity"
   /\ call.status = "ok"
   /\ call.entity.ctid # NoCtid
   /\ call.entity.id # NoId
   /\ ~IsBlank(call.entity.id)
   /\ call.entity.id # ctidBasedId(defaultRC, call.entity.ctid)) =>
    /\ call.ret.id = ctidBasedId(defaultRC, call.entity.ctid)
    /\ call.ret.sameAs = Append(FilterOut(call.entity.sameAs, call.entity.id), call.entity.id)
    /\ Has(entities, call.ret.id)

\* the last processEntity call completed and fetched, for position i of
\* ceterms:ownedBy, a CTDL document with a ctid and the requested @id
C9_Case(i) ==
  /\ call.status = "ok"
  /\ FetchedOwnedBy(i)
  /\ Fetch(web, OwnedByString(i)).ok
  /\ Fetch(web, OwnedByString(i)).context = "ctdl"
  /\ Fetch(web, OwnedByString(i)).doc.ctid # NoCtid
  /\ Fetch(web, OwnedByString(i)).doc.id = OwnedByString(i)

C9_FetchedId(i) == ctidBasedId(defaultRC, Fetch(web, OwnedByString(i)).doc.ctid)

C9_EdgeAndValue(i) ==
  /\ call.ret.id \in DOMAIN entitiesReferencedBy
  /\ Contains(entitiesReferencedBy[call.ret.id], C9_FetchedId(i))
  /\ call.ret.props["ceterms:ownedBy"][i] = StrVal(C9_FetchedId(i))

C9_WitnessFresh ==
  /\ C9_Case(1)
  /\ ~Has(call.before, C9_FetchedId(1))
  /\ ~Get(entities, C9_FetchedId(1)).processed

\* position i of ceterms:ownedBy of the entity handed to the last processEntity
\* call holds the first embedded object whose declared type is out of range
C10_Offending(i) ==
  /\ call.op = "processEntity"
  /\ call.entity.type \in topLevelClassURIs
  /\ call.entity.ctid # NoCtid
  /\ call.status # "TypeError"
  /\ i <= Len(call.entity.props["ceterms:ownedBy"])
  /\ \A j \in 1..i :
       (/\ call.entity.props["ceterms:ownedBy"][j].tag = "obj"
        /\ call.entity.props["ceterms:ownedBy"][j].type # NoType
        /\ call.entity.props["ceterms:ownedBy"][j].type
             \notin getRangeForProperty("ceterms:ownedBy")) <=> (j = i)

\* the call returned nothing, marked no record processed and left the run going
C10_EntitySkipped ==
  /\ call.status = "return"
  /\ \A k \in 1..Len(entities) :
       entities[k].processed => Get(call.before, entities[k].key).processed
  /\ ~failed
  /\ pc # "failed"

C10_WitnessSecond ==
  /\ C10_Offending(2)
  /\ call.errors # <<>>

\* C11: every pointer property of the returned document has one element per
\* input value, and so has the pointer property of every embedded
\* ConditionProfile.
C11_OneOutputPerInput ==
  (call.op = "processEntity" /\ call.status = "ok") =>
    \A i \in 1..Len(PointerProps) :
      /\ Len(call.ret.props[PointerProps[i]]) = Len(call.entity.props[PointerProps[i]])
      /\ \A k \in 1..Len(call.entity.props[PointerProps[i]]) :
           call.entity.props[PointerProps[i]][k].type = "ceterms:ConditionProfile" =>
             Len(call.ret.props[PointerProps[i]][k].inner) =
               Len(call.entity.props[PointerProps[i]][k].inner)

\* the entity handed to the last processEntity call embeds, as the only value
\* of ceterms:ownedBy and of ceterms:approvedBy, a top-level object with one
\* and the same blank identifier and no ctid, and the call completed
C12_Case ==
  /\ call.op = "processEntity"
  /\ call.status = "ok"
  /\ Len(call.entity.props["ceterms:ownedBy"]) = 1
  /\ Len(call.entity.props["ceterms:approvedBy"]) = 1
  /\ call.entity.props["ceterms:ownedBy"][1].tag = "obj"
  /\ call.entity.props["ceterms:approvedBy"][1].tag = "obj"
  /\ call.entity.props["ceterms:ownedBy"][1].type \in topLevelClassURIs
  /\ call.entity.props["ceterms:approvedBy"][1].type \in topLevelClassURIs
  /\ IsBlank(call.entity.props["ceterms:ownedBy"][1].id)
  /\ call.entity.props["ceterms:ownedBy"][1].ctid = NoCtid
  /\ call.entity.props["ceterms:approvedBy"][1].ctid = NoCtid
  /\ call.entity.props["ceterms:approvedBy"][1].id = call.entity.props["ceterms:ownedBy"][1].id

C12_Blank == call.entity.props["ceterms:ownedBy"][1].id

\* C12: two pointer properties embedding a top-level object with the same
\* blank identifier give one store record for it (the store gains the root and
\* that record, nothing else), one reference edge, and both properties hold
\* that identifier.
C12_SameBlankOneRecord ==
  C12_Case =>
    /\ Cardinality({k \in 1..Len(entities) : entities[k].key = C12_Blank}) = 1
    /\ {entities[k].key : k \in 1..Len(entities)} =
         {call.before[k].key : k \in 1..Len(call.before)} \cup {call.ret.id, C12_Blank}
    /\ Len(entities) = Cardinality({entities[k].key : k \in 1..Len(entities)})
    /\ Cardinality({k \in 1..Len(entitiesReferencedBy[call.ret.id]) :
                      entitiesReferencedBy[call.ret.id][k] = C12_Blank}) = 1
    /\ call.ret.props["ceterms:ownedBy"] = <<StrVal(C12_Blank)>>
    /\ call.ret.props["ceterms:approvedBy"] = <<StrVal(C12_Blank)>>

\* the case on an empty store: the store then holds the root and the one record
C12_Witness ==
  /\ C12_Case
  /\ call.before = <<>>
  /\ Len(entities) = 2

\* the value at position i of ceterms:ownedBy handed to the last processEntity
\* call (a string that stands for nothing when there is none)
C13_Value(i) ==
  IF call.op = "processEntity" /\ i <= Len(call.entity.props["ceterms:ownedBy"])
  THEN call.entity.props["ceterms:ownedBy"][i]
  ELSE StrVal(NoId)

\* the call completed and position i held an embedded object of a top-level,
\* in-range type with neither ctid nor blank @id
C13_Case(i) ==
  /\ call.op = "processEntity"
  /\ call.status = "ok"
  /\ C13_Value(i).tag = "obj"
  /\ C13_Value(i).type \in topLevelClassURIs
  /\ C13_Value(i).type \in getRangeForProperty("ceterms:ownedBy")
  /\ C13_Value(i).ctid = NoCtid
  /\ ~IsBlank(C13_Value(i).id)

C13_Minted(i) == call.ret.props["ceterms:ownedBy"][i].id

\* C13: such an object is registered under a newly minted blank identifier
\* (fetched=false, source and edge from the current entity), the value becomes
\* that identifier, and the record's sameAs is the object's sameAs followed by
\* its original @id when it had one, and unchanged when it had none.
C13_MintedBlankRegistered ==
  \A i \in 1..2 :
    C13_Case(i) =>
      /\ call.ret.props["ceterms:ownedBy"][i] = StrVal(C13_Minted(i))
      /\ IsBlank(C13_Minted(i))
      /\ ~Has(call.before, C13_Minted(i))
      /\ Get(entities, C13_Minted(i)) =
           StoreEntity(C13_Minted(i), FALSE,
                       [EntityOfVal(C13_Value(i)) EXCEPT
                          !.id = C13_Minted(i),
                          !.sameAs = IF C13_Value(i).id # NoId
                                     THEN Append(@, C13_Value(i).id) ELSE @],
                       FALSE, call.ret.id)
      /\ call.ret.id \in DOMAIN entitiesReferencedBy
      /\ Contains(entitiesReferencedBy[call.ret.id], C13_Minted(i))

\* an embedded object with an @id of its own was given a blank identifier
C13_Witness ==
  /\ C13_Case(1)
  /\ C13_Value(1).id # NoId
  /\ Get(entities, C13_Minted(1)).entity.sameAs = <<C13_Value(1).id>>

\* an embedded object without @id was given a blank identifier
C13_WitnessNoId ==
  /\ C13_Case(1)
  /\ C13_Value(1).id = NoId
  /\ Get(entities, C13_Minted(1)).entity.sameAs = <<>>

\* the last processEntity call got a top-level entity with a ctid whose only
\* pointer value is an embedded object of a top-level, in-range type that
\* declares a ctid
C14_Case ==
  /\ call.op = "processEntity"
  /\ call.entity.type \in topLevelClassURIs
  /\ call.entity.ctid # NoCtid
  /\ Len(call.entity.props["ceterms:ownedBy"]) = 1
  /\ call.entity.props["ceterms:approvedBy"] = <<>>
  /\ call.entity.props["ceterms:requires"] = <<>>
  /\ C13_Value(1).tag = "obj"
  /\ C13_Value(1).type \in topLevelClassURIs
  /\ C13_Value(1).type \in getRangeForProperty("ceterms:ownedBy")
  /\ C13_Value(1).ctid # NoCtid

C14_Id == ctidBasedId(defaultRC, C13_Value(1).ctid)

\* C14: such an object is registered as its own record under the canonical id
\* with fetched=false and an edge from the current entity, the value becomes
\* the canonical id, and the graph extracted for the current entity does not
\* contain the object.
C14_EmbeddedWithCtidHoisted ==
  C14_Case =>
    /\ call.status = "ok"
    /\ call.ret.props["ceterms:ownedBy"] = <<StrVal(C14_Id)>>
    /\ Has(entities, C14_Id)
    /\ ~Get(entities, C14_Id).fetched
    /\ call.ret.id \in DOMAIN entitiesReferencedBy
    /\ Contains(entitiesReferencedBy[call.ret.id], C14_Id)
    /\ \A k \in 2..Len(extractGraphForEntity(entities, entitiesReferencedBy, call.ret.id)) :
         extractGraphForEntity(entities, entitiesReferencedBy, call.ret.id)[k].id # C14_Id

\* the last processEntity call completed on an entity whose ceterms:requires
\* is one ConditionProfile with one string s in its pointer property
C15_Case ==
  /\ call.op = "processEntity"
  /\ call.status = "ok"
  /\ call.entity.props["ceterms:ownedBy"] = <<>>
  /\ call.entity.props["ceterms:approvedBy"] = <<>>
  /\ Len(call.entity.props["ceterms:requires"]) = 1
  /\ call.entity.props["ceterms:requires"][1].type = "ceterms:ConditionProfile"
  /\ Len(call.entity.props["ceterms:requires"][1].inner) = 1

C15_String == call.entity.props["ceterms:requires"][1].inner[1]

\* s was in the store before the call
C15_InStore == getFuzzy(call.before, C15_String, NoCtid) # NoRecord

\* the fetch of s succeeds: a CTDL document with a ctid and the requested @id
C15_Fetchable ==
  /\ Fetch(web, C15_String).ok
  /\ Fetch(web, C15_String).context = "ctdl"
  /\ Fetch(web, C15_String).doc.ctid # NoCtid
  /\ Fetch(web, C15_String).doc.id = C15_String

\* C15: an embedded ConditionProfile stays an inline object at its position,
\* no store record is a ConditionProfile, and a string of its pointer property
\* that is in the store or fetched successfully is replaced by the canonical
\* identifier of the entity it refers to.
C15_ProfileInlineAndResolved ==
  C15_Case =>
    /\ Len(call.ret.props["ceterms:requires"]) = 1
    /\ call.ret.props["ceterms:requires"][1].tag = "obj"
    /\ call.ret.props["ceterms:requires"][1].type = "ceterms:ConditionProfile"
    /\ \A k \in 1..Len(entities) : entities[k].entity.type # "ceterms:ConditionProfile"
    /\ C15_InStore =>
         call.ret.props["ceterms:requires"][1].inner =
           <<getFuzzy(call.before, C15_String, NoCtid).entity.id>>
    /\ (~C15_InStore /\ C15_Fetchable) =>
         call.ret.props["ceterms:requires"][1].inner =
           <<ctidBasedId(defaultRC, Fetch(web, C15_String).doc.ctid)>>

\* C16: processEntity on an entity whose primary type is not a top-level class
\* returns the entity as it is and changes neither the entity records, nor the
\* equivalence index, nor the reference graph.
C16_NotTopLevelUnchanged ==
  [][(call'.op = "processEntity" /\ call'.entity.type \notin topLevelClassURIs) =>
       /\ call'.status = "unchanged"
       /\ call'.ret = call'.entity
       /\ call'.fetches = <<>>
       /\ entities' = entities
       /\ sameAsIndex' = sameAsIndex
       /\ entitiesReferencedBy' = entitiesReferencedBy]_vars

\* an entity of a type that is no top-level class, with a ctid and a pointer
\* value, was handed to processEntity on a store that holds records
C16_Witness ==
  /\ call.op = "processEntity"
  /\ call.entity.type = "ceterms:Place"
  /\ call.entity.props["ceterms:ownedBy"] # <<>>
  /\ call.ret = call.entity
  /\ entities # <<>>

\* what C17 says getFuzzy(id, ctid) returns: the record keyed by id, else the
\* record under the id the equivalence index maps id to, else the record
\* carrying the ctid when one is supplied, else nothing
C17_Stated(id, ctid) ==
  IF Has(entities, id) THEN Get(entities, id)
  ELSE IF id \in DOMAIN sameAsIndex THEN Get(entities, sameAsIndex[id])
  ELSE IF ctid # NoCtid THEN getByCtid(entities, ctid)
  ELSE NoRecord

\* C17: getFuzzy resolves by exact id, then through the equivalence index,
\* then by ctid when supplied.
C17_FuzzyThroughIndex ==
  \A id \in {U1, U2, SRC, RA, RB, BX}, ctid \in {NoCtid, CtidA, CtidB} :
    getFuzzy(entities, id, ctid) = C17_Stated(id, ctid)

\* C18: a registerEntity call that registers under a canonical id maps every
\* ceterms:sameAs value of the canonicalized entity to that id, also when the
\* record is not replaced and also when the key was mapped before; every
\* other key keeps its value, and no step other than reset() removes a key.
C18_SameAsIndexed ==
  [][/\ (call'.op = "registerEntity" /\ call'.ret # NoEntity) =>
          /\ \A k \in 1..Len(call'.ret.sameAs) :
               /\ call'.ret.sameAs[k] \in DOMAIN sameAsIndex'
               /\ sameAsIndex'[call'.ret.sameAs[k]] = call'.ret.id
          /\ \A key \in DOMAIN sameAsIndex :
               ~Contains(call'.ret.sameAs, key) => sameAsIndex'[key] = sameAsIndex[key]
     /\ (call'.op = "processEntity" /\ call'.status = "ok" /\ call'.ret.id # NoId) =>
          \A k \in 1..Len(replaceIdWithRegistryId(call'.ret, defaultRC).sameAs) :
            /\ replaceIdWithRegistryId(call'.ret, defaultRC).sameAs[k] \in DOMAIN sameAsIndex'
            /\ sameAsIndex'[replaceIdWithRegistryId(call'.ret, defaultRC).sameAs[k]] =
                 replaceIdWithRegistryId(call'.ret, defaultRC).id
     /\ call'.op # "reset" => \A key \in DOMAIN sameAsIndex : key \in DOMAIN sameAsIndex'
    ]_vars

\* a registration that did not replace the stored record indexed its sameAs
C18_Witness ==
  /\ call.op = "registerEntity"
  /\ call.ret # NoEntity
  /\ call.ret.sameAs # <<>>
  /\ Has(call.before, call.ret.id)
  /\ Get(entities, call.ret.id) = Get(call.before, call.ret.id)
  /\ Get(entities, call.ret.id).entity.sameAs = <<>>
  /\ sameAsIndex[call.ret.sameAs[1]] = call.ret.id

\* a registration mapped a key that an earlier one had mapped to another id
C18_WitnessOverwrite ==
  /\ call.op = "registerEntity"
  /\ call.ret.sameAs # <<>>
  /\ \E k \in 1..Len(entities) :
       /\ entities[k].key # call.ret.id
       /\ Contains(entities[k].entity.sameAs, call.ret.sameAs[1])
  /\ sameAsIndex[call.ret.sameAs[1]] = call.ret.id

\* C19: no adjacency list of entitiesReferencedBy holds a target twice; every
\* step other than reset() keeps each list as a prefix of the list after it
\* (no edge removed or reordered, new targets appended in insertion order),
\* also when the step upgrades or replaces a stored record; and a
\* registration whose edge from -> id exists already leaves the graph as it is.
C19_EdgesAppendOnly ==
  [][/\ \A f \in DOMAIN entitiesReferencedBy' :
          \A i, j \in 1..Len(entitiesReferencedBy'[f]) :
            entitiesReferencedBy'[f][i] = entitiesReferencedBy'[f][j] => i = j
     /\ call'.op # "reset" =>
          \A f \in DOMAIN entitiesReferencedBy :
            /\ f \in DOMAIN entitiesReferencedBy'
            /\ Len(entitiesReferencedBy[f]) <= Len(entitiesReferencedBy'[f])
            /\ \A i \in 1..Len(entitiesReferencedBy[f]) :
                 entitiesReferencedBy'[f][i] = entitiesReferencedBy[f][i]
     /\ (/\ call'.op = "registerEntity"
         /\ call'.ret # NoEntity
         /\ call'.from \in DOMAIN entitiesReferencedBy
         /\ Contains(entitiesReferencedBy[call'.from], call'.ret.id)) =>
          entitiesReferencedBy' = entitiesReferencedBy
    ]_vars

\* two edges from one source in the order of their registration
C19_WitnessOrder ==
  /\ call.op = "registerEntity"
  /\ call.from = SRC
  /\ entitiesReferencedBy[SRC] = <<RA, RB>>
  /\ call.ret.id = RB

\* a record referenced from SRC was upgraded by a registration without source
C19_WitnessUpgrade ==
  /\ call.op = "registerEntity"
  /\ call.from = NoId
  /\ Has(call.before, call.ret.id)
  /\ Get(entities, call.ret.id) # Get(call.before, call.ret.id)
  /\ SRC \in DOMAIN entitiesReferencedBy
  /\ entitiesReferencedBy[SRC] = <<call.ret.id>>

\* the targets of the edges from a record, in edge order, that are stored and
\* are blank-identified or not of a top-level type
C20_Dependents(id) ==
  IF id \notin DOMAIN entitiesReferencedBy THEN <<>>
  ELSE [k \in 1..Len(SelectSeq(entitiesReferencedBy[id],
                               LAMBDA t : /\ Has(entities, t)
                                          /\ \/ IsBlank(t)
                                             \/ Get(entities, t).entity.type
                                                  \notin topLevelClassURIs)) |->
          Get(entities,
              SelectSeq(entitiesReferencedBy[id],
                        LAMBDA t : /\ Has(entities, t)
                                   /\ \/ IsBlank(t)
                                      \/ Get(entities, t).entity.type
                                           \notin topLevelClassURIs)[k]).entity]

\* C20: extractGraphForEntity(id) is undefined when no record exists for id;
\* otherwise its @graph is the root entity followed by exactly the targets of
\* the edges from id that are stored and are blank-identified or not of a
\* top-level type, in edge insertion order.
C20_GraphIsRootAndDependents ==
  \A id \in {U1, U2, SRC, RA, RB, BX} :
    extractGraphForEntity(entities, entitiesReferencedBy, id) =
      IF Has(entities, id) THEN <<Get(entities, id).entity>> \o C20_Dependents(id)
      ELSE <<>>

\* C21: in every reachable store the @graph of extractGraphForEntity holds no
\* identifier twice, the root's own included.
C21_NoIdentifierTwice ==
  \A id \in {U1, U2, SRC, RA, RB, BX} :
    \A i, j \in 1..Len(extractGraphForEntity(entities, entitiesReferencedBy, id)) :
      extractGraphForEntity(entities, entitiesReferencedBy, id)[i].id =
        extractGraphForEntity(entities, entitiesReferencedBy, id)[j].id => i = j

\* organizations 0, credentials 1, everything else 2
C22_Tier(id) ==
  IF classIsDescendantOf(Get(entities, id).entity.type, "ceterms:Organization") THEN 0
  ELSE IF classIsDescendantOf(Get(entities, id).entity.type, "ceterms:Credential") THEN 1
  ELSE 2

\* C22: in the list returned by getOrderedEntitiesToPublish organizations
\* precede credentials, which precede every other entity, and two entities of
\* one tier appear in the order in which their records were created.
C22_TiersThenCreationOrder ==
  pc = "ordered" =>
    \A i, j \in 1..Len(toPublish) :
      i < j =>
        \/ C22_Tier(toPublish[i]) < C22_Tier(toPublish[j])
        \/ /\ C22_Tier(toPublish[i]) = C22_Tier(toPublish[j])
           /\ IndexOf(entities, toPublish[i]) < IndexOf(entities, toPublish[j])

\* two credentials created before an organization are returned after it, in
\* the order of their creation
C22_Witness ==
  /\ pc = "ordered"
  /\ Len(entities) = 3
  /\ entities[1].key = RA
  /\ entities[2].key = RC
  /\ entities[3].key = RB
  /\ toPublish = <<RB, RA, RC>>

\* an entity of the last tier created first is returned last
C22_WitnessOther ==
  /\ pc = "ordered"
  /\ Len(entities) = 3
  /\ entities[1].key = RD
  /\ toPublish = <<RB, RC, RD>>

\* the records whose @id or one of whose ceterms:sameAs values is in the urls
\* asked for and whose type is a top-level class
C23_Matching ==
  {k \in 1..Len(entities) :
     /\ \/ entities[k].entity.id \in SeqToSet(urlsArray)
        \/ SeqToSet(entities[k].entity.sameAs) \cap SeqToSet(urlsArray) # {}
     /\ entities[k].entity.type \in topLevelClassURIs}

C23_WitnessNotTopLevel ==
  /\ pc = "ordered"
  /\ urlsArray = <<RE, RD, RC, RB, RA>>
  /\ Has(entities, RE)
  /\ Has(entities, BX)
  /\ toPublish = <<RD>>

\* the top-level entities registered with source location SRC
C24_RegisteredFromSource ==
  IF SRC \in DOMAIN entitiesReferencedBy
  THEN {id \in SeqToSet(entitiesReferencedBy[SRC]) :
          Get(entities, id).entity.type \in topLevelClassURIs}
  ELSE {}

\* C24: getOrderedEntitiesToPublish([S]) returns exactly the top-level
\* entities that were registered with source location S.
C24_SourcedEntitiesReturned ==
  (pc = "ordered" /\ urlsArray = <<SRC>>) =>
    SeqToSet(toPublish) = C24_RegisteredFromSource

\* the graphs submitted so far are those of the entities already visited in
\* the order returned by getOrderedEntitiesToPublish, skipping the ones
\* without a ctid, in that order
C25_InOrder ==
  (pc \in {"publish", "done", "failed"} /\ call.op \in {"order", "publish", "finish"}) =>
    [k \in 1..Len(submitted) |-> submitted[k].root] =
      IF dryRun THEN <<>>
      ELSE SelectSeq(SubSeq(getOrderedEntitiesToPublish(entities, urlsArray), 1,
                            Len(getOrderedEntitiesToPublish(entities, urlsArray))
                              - Len(toPublish)),
                     LAMBDA id : Get(entities, id).entity.ctid # NoCtid)

\* C25: a publish submission that is answered with a non-OK response or with
\* Successful = false marks the run failed; once the run is failed no graph
\* is submitted; and the graphs submitted were submitted in the order given
\* by getOrderedEntitiesToPublish.
C25_FailureStopsPublication ==
  [][/\ (call'.op = "publish" /\ call'.status \in {"notOk", "unsuccessful"}) =>
          (failed' /\ pc' = "failed")
     /\ failed => submitted' = submitted
     /\ C25_InOrder'
    ]_vars

\* the first of two graphs was refused: the run is failed and the second
\* graph is left unsent
C25_Witness ==
  /\ call.op = "publish"
  /\ call.status = "notOk"
  /\ failed
  /\ Len(submitted) = 1
  /\ toPublish # <<>>
  /\ Get(entities, toPublish[1]).entity.ctid # NoCtid
  /\ ~ENABLED RunNext

\* two graphs were submitted, organization first, and the second was
\* answered with Successful = false
C25_WitnessSecond ==
  /\ call.op = "publish"
  /\ call.status = "unsuccessful"
  /\ failed
  /\ Len(submitted) = 2
  /\ urlsArray = <<S1, S2>>
  /\ submitted[1].root = RB

\* the last step was a processEntity call that reported a missing ctid or a
\* range error and returned
C26_Reported ==
  /\ call.op = "processEntity"
  /\ call.status = "return"
  /\ call.errors # <<>>

\* the publishable records of the source urls: known by a source url,
\* top-level, with a ctid
C26_Publishable ==
  {k \in 1..Len(entities) :
     /\ \/ entities[k].entity.id \in SeqToSet(urlsArray)
        \/ SeqToSet(entities[k].entity.sameAs) \cap SeqToSet(urlsArray) # {}
     /\ entities[k].entity.type \in topLevelClassURIs
     /\ entities[k].entity.ctid # NoCtid}

\* C26: a missing-ctid or range error reported while a source entity is
\* processed does not stop the run: the run is not marked failed, the loop
\* moves on to the next source URL (or to the next phase), and a run that
\* finishes has submitted every publishable entity of its sources.
C26_ErrorDoesNotStopRun ==
  [][/\ (C26_Reported' /\ pc = "sources") =>
          /\ pc' = "sources"
          /\ ~failed'
          /\ idx' = idx + 1
     /\ (C26_Reported' /\ pc = "second") => (pc' = "second" /\ ~failed')
     /\ (pc' = "done" /\ ~dryRun') =>
          \A k \in C26_Publishable' :
            \E n \in 1..Len(submitted') : submitted'[n].root = entities'[k].key
    ]_vars

\* the first source reported a range error, the second source was fetched
\* and processed after it, and its entity was submitted
C26_Witness ==
  /\ pc = "done"
  /\ ~dryRun
  /\ urlsArray = <<S1, S2>>
  /\ web[S1] = Response(TRUE, "ctdl", WithOwnedBy(S1, CtidA, <<OutOfRange>>))
  /\ Has(entities, RB)
  /\ Get(entities, RB).entity.sameAs = <<S2>>
  /\ Get(entities, RB).processed
  /\ Len(submitted) = 1
  /\ submitted[1].root = RB

\* the first source has no ctid; the second was processed and submitted
C26_WitnessNoCtid ==
  /\ pc = "done"
  /\ ~dryRun
  /\ urlsArray = <<S1, S2>>
  /\ web[S1] = Response(TRUE, "ctdl", Plain(S1, "ceterms:Badge", NoCtid, <<>>, "n1"))
  /\ Len(submitted) = 1
  /\ submitted[1].root \in {RA, RB}

\* a critical error has happened: an input of the configuration is unusable,
\* or a source URL that was fetched answered with a non-OK status
C27_CriticalError ==
  /\ pc # "config"
  /\ \/ inputs.registry_env \notin DOMAIN RegistryBaseUrls
     \/ inputs.registry_api_key = ""
     \/ inputs.organization_ctid = ""
     \/ \E i \in 1..Len(urlsArray) : i < idx /\ ~Fetch(web, urlsArray[i]).ok

\* C27: after a critical error (unknown registry_env, missing
\* registry_api_key or organization_ctid, non-OK source URL) the error is
\* reported, the run is marked failed, and nothing else happens: no step of
\* the run is taken and no graph was submitted.
C27_CriticalErrorAborts ==
  C27_CriticalError =>
    /\ call.op = "critical"
    /\ failed
    /\ pc = "failed"
    /\ submitted = <<>>
    /\ ~ENABLED RunNext

\* the web serves at url a CTDL document with a ctid and with @id = url
C28_Registrable(url) ==
  /\ Fetch(web, url).ok
  /\ Fetch(web, url).context = "ctdl"
  /\ Fetch(web, url).doc.ctid # NoCtid
  /\ Fetch(web, url).doc.id = url

\* C28: within a processEntity call, a URL that was fetched and registered
\* (document with a ctid and @id equal to the URL) is not fetched again: the
\* later string references to it resolve from the store.
C28_FetchedOnce ==
  call.op = "processEntity" =>
    \A i, j \in 1..Len(call.fetches) :
      (i < j /\ call.fetches[i] = call.fetches[j]) => ~C28_Registrable(call.fetches[i])

\* C29: the resolution phase of every run ends (also over documents that
\* reference each other in a cycle); a processEntity call marks no record
\* processed but the one of the document it returns, so a fetched document is
\* not processed by the call that fetched it; and each round of the second
\* pass takes the next key of the snapshot, whatever the store has gained.
C29_ResolutionTerminates ==
  /\ <>(pc \notin {"config", "sources", "second"})
  /\ [][/\ call'.op = "processEntity" =>
            \A k \in 1..Len(entities') :
              (/\ entities'[k].processed
               /\ ~Get(entities, entities'[k].key).processed) =>
                /\ call'.status = "ok"
                /\ entities'[k].entity = replaceIdWithRegistryId(call'.ret, defaultRC)
        /\ (pc = "second" /\ pc' = "second") => entitiesToProcess' = Tail(entitiesToProcess)
       ]_vars

\* the run over the cyclic documents has left the resolution phase: the
\* document fetched by the second pass is registered and not processed
C29_Witness ==
  /\ web = CyclicWeb
  /\ pc = "publish"
  /\ Has(entities, RA) /\ Get(entities, RA).processed
  /\ Has(entities, RB) /\ Get(entities, RB).processed
  /\ Has(entities, RC) /\ ~Get(entities, RC).processed
  /\ Get(entities, RC).fetched

\* C30: a registerEntity call that repeats the arguments of the call before
\* it returns an entity with the same @id (a blank one as it was given) and
\* leaves records, equivalence index and reference graph as they were; and
\* replaceIdWithRegistryId maps the entity returned to itself.
C30_ReregistrationIdempotent ==
  [][(/\ call.op = "registerEntity"
      /\ call'.op = "registerEntity"
      /\ call'.entity = call.entity
      /\ call'.fetched = call.fetched
      /\ call'.processed = call.processed
      /\ call'.from = call.from) =>
       /\ call'.ret = call.ret
       /\ IsBlank(call'.ret.id) => call'.ret.id = call'.entity.id
       /\ entities' = entities
       /\ sameAsIndex' = sameAsIndex
       /\ entitiesReferencedBy' = entitiesReferencedBy
       /\ replaceIdWithRegistryId(call'.ret, defaultRC) = call'.ret
    ]_vars

\* the second of two registrations of an entity known by a URL, as fetched:
\* the record is the one the first call wrote
C30_Witness ==
  /\ call.op = "registerEntity"
  /\ ops = 2
  /\ call.entity.id = U1
  /\ call.fetched
  /\ call.ret.sameAs = <<U1>>
  /\ call.before = entities
  /\ Len(entities) = 1
  /\ entities[1] = StoreEntity(call.ret.id, call.fetched, call.ret, call.processed, call.from)
  /\ sameAsIndex[U1] = call.ret.id

\* the second of two registrations of a blank node
C30_WitnessBlank ==
  /\ call.op = "registerEntity"
  /\ ops = 2
  /\ call.entity.id = BX
  /\ call.ret.id = BX
  /\ call.before = entities
  /\ Len(entities) = 1
  /\ entities[1] = StoreEntity(BX, call.fetched, call.ret, call.processed, call.from)

\* the records of blank nodes that fetchAndRegisterEntity registered for url:
\* a minted identifier, url appended to ceterms:sameAs, no source entity
C31_RecordsFor(ents, url) ==
  {ents[k].key : k \in {i \in 1..Len(ents) :
                          /\ IsBlank(ents[i].key)
                          /\ ents[i].key.n > 0
                          /\ ~ents[i].fetched
                          /\ ents[i].sourceUrl = NoId
                          /\ Contains(ents[i].entity.sameAs, url)}}

\* the strings held by the pointer properties of an entity and by the
\* condition profiles embedded in them
C31_Strings(entity) ==
  UNION {{entity.props[p][i].id : i \in {j \in 1..Len(entity.props[p]) :
                                           entity.props[p][j].tag = "str"}}
           \cup UNION {SeqToSet(entity.props[p][i].inner) :
                         i \in {j \in 1..Len(entity.props[p]) :
                                  entity.props[p][j].tag = "obj"}} :
         p \in DOMAIN entity.props}

\* the last call was processEntity of a top-level entity that refers by a
\* string to U2, whose document has no ceterms:ctid, and a blank node was
\* registered for U2 by an earlier reference
C31_SecondReference ==
  /\ call.op = "processEntity"
  /\ call.status \in {"ok", "return", "TypeError"}
  /\ U2 \in C31_Strings(call.entity)
  /\ Fetch(web, U2).ok
  /\ Fetch(web, U2).context = "ctdl"
  /\ Fetch(web, U2).doc.ctid = NoCtid
  /\ C31_RecordsFor(call.before, U2) # {}

\* C31 as stated: the second reference to a URL whose document has no
\* ceterms:ctid mints a second blank identifier and creates a second record.
C31_TwoBlanksMinted ==
  C31_SecondReference =>
    /\ Contains(call.fetches, U2)
    /\ Cardinality(C31_RecordsFor(entities, U2)) =
         Cardinality(C31_RecordsFor(call.before, U2)) + 1

\* C31: a later reference to a URL whose document has no ceterms:ctid, and
\* for which a blank node was registered by an earlier reference, is resolved
\* to that blank node: the URL is not fetched again, no blank identifier is
\* minted and no record is created for it, and the document returned holds
\* the identifier of the record in place of the URL.
C31_SecondReferenceResolved ==
  C31_SecondReference =>
    /\ ~Contains(call.fetches, U2)
    /\ C31_RecordsFor(entities, U2) = C31_RecordsFor(call.before, U2)
    /\ \A k \in 1..Len(entities) :
         (IsBlank(entities[k].key) /\ entities[k].key.n > 0) =>
           Has(call.before, entities[k].key)
    /\ call.status = "ok" =>
         /\ getFuzzy(call.before, U2, NoCtid).entity.id \in C31_Strings(call.ret)
         /\ getFuzzy(call.before, U2, NoCtid).entity.id \in C31_RecordsFor(call.before, U2)
         /\ U2 \notin C31_Strings(call.ret)

\* an organization refers to the URL for which the processing of a badge
\* registered a blank node: one record, and the organization points to it
C31_Witness ==
  /\ C31_SecondReference
  /\ ops = 2
  /\ call.status = "ok"
  /\ call.entity.ctid = CtidB
  /\ call.entity.props["ceterms:ownedBy"] = <<StrVal(U2)>>
  /\ Len(call.before) = 1
  /\ call.before[1].key = NewBlank(1)
  /\ uuid = 1
  /\ Len(entities) = 2
  /\ entities[2].key = RB
  /\ entities[2].entity.props["ceterms:ownedBy"] = <<StrVal(NewBlank(1))>>

\* the first reference came from a condition profile of a badge that is in
\* the store, the second from an organization
C31_WitnessProfile ==
  /\ C31_SecondReference
  /\ ops = 2
  /\ call.status = "ok"
  /\ call.entity.ctid = CtidB
  /\ Len(call.before) = 2
  /\ call.before[1].key = NewBlank(1)
  /\ call.before[2].key = RA
  /\ call.before[2].processed
  /\ uuid = 1
  /\ Len(entities) = 3
  /\ entities[3].entity.props["ceterms:ownedBy"] = <<StrVal(NewBlank(1))>>

\* the parent links of the known classes: <<c, p>> when classMetadata has c
\* and names p as its parent
C32_ParentLinks ==
  {<<c, subClassOf(c)>> : c \in {k \in KnownClasses : subClassOf(k) # ""}}

\* the classes reached from the classes of S by at most n parent links
RECURSIVE C32_Reached(_, _)
C32_Reached(S, n) ==
  IF n = 0 THEN S
  ELSE C32_Reached(S \cup {l[2] : l \in {k \in C32_ParentLinks : k[1] \in S}}, n - 1)

\* C32: classIsDescendantOf(c, ancestor) answers true exactly when ancestor is
\* c or is reached from c over parent links of known classes; so it answers
\* false, and raises no error, for a different ancestor when c is unknown, when
\* the ancestor is unknown and no class names it as parent, and when the chain
\* of parents ends before the ancestor.
C32_DescendantIffReachable ==
  call.op = "classIsDescendantOf" =>
    /\ asked.answer \in BOOLEAN
    /\ asked.answer <=>
         asked.ancestor \in C32_Reached({asked.c}, Cardinality(KnownClasses))
    /\ (asked.c \notin KnownClasses /\ asked.c # asked.ancestor) => ~asked.answer
    /\ (/\ asked.ancestor \notin KnownClasses
        /\ asked.c # asked.ancestor
        /\ \A l \in C32_ParentLinks : l[2] # asked.ancestor) => ~asked.answer

\* an ancestor two parent links away is found
C32_Witness ==
  /\ call.op = "classIsDescendantOf"
  /\ asked = Asked("ceterms:QACredentialOrganization", "ceterms:Agent", TRUE)

\* the questions of the test "should answer correctly about descendants"
\* about classes the vocabulary does not have
C32_WitnessUnknown ==
  /\ call.op = "classIsDescendantOf"
  /\ asked \in {Asked("ceterms:Credential", "ceterms:Foo", FALSE),
               Asked("ceterms:Foo", "ceterms:Credential", FALSE),
               Asked("ceterms:Foo", "ceterms:Bar", FALSE),
               Asked("constructor", "ceterms:Credential", FALSE)}

\* the chain of parents ends before the ancestor
C32_WitnessChainEnds ==
  /\ call.op = "classIsDescendantOf"
  /\ asked = Asked("ceterms:Badge", "ceterms:Organization", FALSE)

\* the top-level objects with a blank identifier that the document served at
\* url embeds in its pointer properties
C33_EmbeddedBlanks(url) ==
  IF url \in DOMAIN web /\ Fetch(web, url).ok /\ ~Fetch(web, url).isGraph
  THEN UNION {{EntityOfVal(Fetch(web, url).doc.props[p][i]) :
                 i \in {j \in 1..Len(Fetch(web, url).doc.props[p]) :
                          /\ Fetch(web, url).doc.props[p][j].tag = "obj"
                          /\ IsBlank(Fetch(web, url).doc.props[p][j].id)
                          /\ Fetch(web, url).doc.props[p][j].type \in topLevelClassURIs}} :
              p \in DOMAIN NoProps}
  ELSE {}

\* C33: the graph submitted for a root holds, for every top-level object with
\* a blank identifier that the root's document embedded, an entity with that
\* identifier and with the content this document gave it, also when the
\* document of another root embedded other content under the same identifier.
C33_BlankScopedToGraph ==
  \A k \in 1..Len(submitted) :
    \A n \in 1..Len(submitted[k].graph[1].sameAs) :
      \A o \in C33_EmbeddedBlanks(submitted[k].graph[1].sameAs[n]) :
        /\ \E g \in 1..Len(submitted[k].graph) : submitted[k].graph[g].id = o.id
        /\ \A g \in 1..Len(submitted[k].graph) :
             submitted[k].graph[g].id = o.id => submitted[k].graph[g] = o

\* C34: every record is stored under the @id of its entity; a record whose
\* entity carries ceterms:ctid C is stored under {registryBaseUrl}/resources/C;
\* so no two records carry the same ctid, and getByCtid finds the one record
\* that carries a ctid.
C34_KeyIsCanonicalId ==
  /\ \A k \in 1..Len(entities) :
       /\ entities[k].entity.id = entities[k].key
       /\ entities[k].key # NoId
       /\ entities[k].entity.ctid # NoCtid =>
            entities[k].key = ctidBasedId(defaultRC, entities[k].entity.ctid)
  /\ \A i, j \in 1..Len(entities) :
       (entities[i].entity.ctid # NoCtid /\ entities[i].entity.ctid = entities[j].entity.ctid)
         => i = j
  /\ \A k \in 1..Len(entities) :
       entities[k].entity.ctid # NoCtid =>
         getByCtid(entities, entities[k].entity.ctid) = entities[k]

\* two records with a ctid, one of them of an entity that came with a URL of
\* its own as @id, and that was then met again under its registry URL
C34_Witness ==
  /\ ops = 2
  /\ Len(entities) = 1
  /\ entities[1].key = RA
  /\ entities[1].entity.ctid = CtidA
  /\ entities[1].entity.sameAs = <<U1>>
  /\ call.entity.id = RA
  /\ call.entity.ctid = CtidA

\* a processed badge, and the organization embedded in it with a URL and a
\* ctid, each under its registry URL
C34_WitnessTwo ==
  /\ call.op = "processEntity"
  /\ call.status = "ok"
  /\ Len(entities) = 2
  /\ {entities[1].key, entities[2].key} = {RA, RB}
  /\ Get(entities, RB).entity.sameAs = <<U2>>
  /\ Get(entities, RA).entity.sameAs = <<U1>>

\* C35: the @id of the document that processEntity returns for a top-level
\* entity is the key under which the call registered the document, so that
\* entityStore.get of that @id is the record of this entity.
C35_ReturnedIdIsKey ==
  (call.op = "processEntity" /\ call.status = "ok") =>
    /\ call.ret.id = registerEntityResult(call.ret, defaultRC).id
    /\ Has(entities, call.ret.id)
    /\ Get(entities, call.ret.id).entity.ctid = call.ret.ctid

\* the blank identifiers that are string values of pointer properties of e
C36_BlankStrings(e) ==
  UNION {{e.props[p][i].id : i \in {j \in 1..Len(e.props[p]) :
                                      /\ e.props[p][j].tag = "str"
                                      /\ IsBlank(e.props[p][j].id)}} :
         p \in DOMAIN e.props}

\* C36: in every graph submitted, each blank identifier that is a string value
\* of a pointer property of the root is the @id of an entity of the same
\* graph, also when the blank node came in the "@graph" of the source document.
C36_BlankReferencesInGraph ==
  \A k \in 1..Len(submitted) :
    \A b \in C36_BlankStrings(submitted[k].graph[1]) :
      \E g \in 1..Len(submitted[k].graph) : submitted[k].graph[g].id = b

\* C37: the record of the root of every graph submitted has processed = true:
\* no entity that was registered and has not passed through processEntity is
\* published as a root.
C37_RootsAreProcessed ==
  \A k \in 1..Len(submitted) :
    /\ Has(entities, submitted[k].root)
    /\ Get(entities, submitted[k].root).processed

\* C38: every submission is for a root with a ceterms:ctid and goes to the
\* publish endpoint defined for the primary type of the root; nothing is
\* submitted for a root whose type, a list of types included, has no endpoint.
C38_SubmittedToDefinedEndpoint ==
  \A k \in 1..Len(submitted) :
    /\ submitted[k].graph[1].id = submitted[k].root
    /\ submitted[k].graph[1].ctid # NoCtid
    /\ submitted[k].endpoint # ""
    /\ submitted[k].endpoint = endpoints(PrimaryType(submitted[k].graph[1].type))

\* C39: in a dry run no publish request is sent; every round of the
\* publication loop goes on to the next entity without marking the run
\* failed, publishDocument having returned true for each graph; and the loop
\* comes to its end, having visited every entity selected for publication.
C39_DryRunSendsNothing ==
  /\ [](dryRun => submitted = <<>>)
  /\ [][(dryRun /\ pc = "publish" /\ toPublish # <<>>) =>
          /\ pc' = "publish"
          /\ toPublish' = Tail(toPublish)
          /\ ~failed'
          /\ submitted' = <<>>
          /\ (Get(entities, Head(toPublish)).entity.ctid # NoCtid) =>
               call'.status = "dryRun"
       ]_vars
  /\ (dryRun /\ pc = "publish"
        /\ toPublish = getOrderedEntitiesToPublish(entities, urlsArray))
       ~> (pc = "done" /\ toPublish = <<>> /\ submitted = <<>> /\ ~failed)

\* a dry run over two sources has come to its end: both entities were
\* selected and visited, and nothing was sent
C39_Witness ==
  /\ dryRun
  /\ pc = "done"
  /\ inputs = ValidInputs
  /\ urlsArray = <<S1, S2>>
  /\ getOrderedEntitiesToPublish(entities, urlsArray) = <<RB, RA>>
  /\ toPublish = <<>>
  /\ submitted = <<>>
  /\ ~failed

\* the second of two rounds of the publication loop of a dry run
C39_WitnessRound ==
  /\ dryRun
  /\ pc = "publish"
  /\ call.op = "publish"
  /\ call.status = "dryRun"
  /\ Len(getOrderedEntitiesToPublish(entities, urlsArray)) = 2
  /\ toPublish = <<>>
  /\ submitted = <<>>

====
